---- MODULE Spec2Model ----
(***************************************************************************)
(* Trajectory graph of EvalAgent's frontend: the graph builder             *)
(* (graphBuilder.js), the fingerprint distance (imageHash.js), the filter  *)
(* of TrajectoryVisualizer.jsx and the renderer TrajectoryGraph (self-loop *)
(* synthesis, highlight playback timers).                                  *)
(*                                                                         *)
(* Conventions.  A hex digest is a sequence of nibbles 0..15.  JavaScript  *)
(* indexes (sequenceIndex, position, detailIndex) keep their 0-based       *)
(* values inside records; TLA+ sequences are 1-based.  A JavaScript Map is *)
(* a sequence in insertion order.  null is NULL (-1) for numbers.          *)
(***************************************************************************)
EXTENDS Integers, Sequences, FiniteSets, TLC

VARIABLES
    trajectory,        \* prop of TrajectoryVisualizer: the details array
    clusterThreshold,  \* state of TrajectoryVisualizer
    buildPhase,        \* "idle", "hashing" (Promise.all pending), "built"
    cursor,            \* per sequence: the position its async loop awaits
    nodeMap,           \* nodeMap of the running build
    sequenceNodeIds,   \* sequenceNodeIds of the running build
    occurrenceCount,   \* occurrences.length of the running build
    graph,             \* state of TrajectoryVisualizer (setGraph)
    filterValue,       \* filter of type 'model'; NoFilter is type 'all'
    view,              \* what TrajectoryGraph draws for filteredGraph
    clusterInput,      \* argument of a direct buildClusters call
    clusterOutput,     \* its result
    clusterCalls,      \* number of calls made on clusterInput
    hl,                \* highlight player of TrajectoryGraph
    leftHash,          \* first argument of a hammingDistance call
    rightHash,         \* its second argument
    distance,          \* its result, NULL before the call
    hashCache,         \* hashCache of imageHash.js, by source
    hashCalls,         \* the computeImageHash calls made, in call order
    subtle,            \* whether window.crypto.subtle exists
    layout,            \* TrajectoryGraph: data, refs and simulations
    rawShots,          \* entry.screenshots of one detail record
    keptShots,         \* screenshotsRaw, once the extraction is done
    rebuild            \* TrajectoryVisualizer: the runs of its build effect

vars == <<trajectory, clusterThreshold, buildPhase, cursor, nodeMap,
          sequenceNodeIds, occurrenceCount, graph, filterValue, view,
          clusterInput, clusterOutput, clusterCalls, hl,
          leftHash, rightHash, distance, hashCache, hashCalls, subtle,
          layout, rawShots, keptShots, rebuild>>

buildVars == <<trajectory, clusterThreshold, buildPhase, cursor, nodeMap,
               sequenceNodeIds, occurrenceCount, graph, filterValue, view>>

clusterVars == <<clusterInput, clusterOutput, clusterCalls>>

distanceVars == <<leftHash, rightHash, distance>>

hashVars == <<hashCache, hashCalls, subtle>>

\* what the actions of one component leave alone
extractVars == <<rawShots, keptShots>>

nonBuildVars == <<clusterVars, hl, distanceVars, hashVars, layout,
                  extractVars, rebuild>>
nonClusterVars == <<buildVars, hl, distanceVars, hashVars, layout,
                    extractVars, rebuild>>
nonHighlightVars == <<buildVars, clusterVars, distanceVars, hashVars, layout,
                      extractVars, rebuild>>
nonDistanceVars == <<buildVars, clusterVars, hl, hashVars, layout,
                     extractVars, rebuild>>
nonHashVars == <<buildVars, clusterVars, hl, distanceVars, layout,
                 extractVars, rebuild>>
nonLayoutVars == <<buildVars, clusterVars, hl, distanceVars, hashVars,
                   extractVars, rebuild>>
nonExtractVars == <<buildVars, clusterVars, hl, distanceVars, hashVars,
                    layout, rebuild>>
nonRebuildVars == <<buildVars, clusterVars, hl, distanceVars, hashVars,
                    layout, extractVars>>

----------------------------------------------------------------------------
(* Bounds of the model *)

MaxShots == 5    \* screenshots of a trajectory, over all its runs
MaxThreshold == 2
MaxNodes == 3    \* hashed nodes of a node list given to buildClusters
MaxCalls == 2    \* buildClusters calls on one node list
MaxPath == 2     \* steps of a highlight request's nodePath
MaxPlays == 2    \* runs of the highlight effect
MaxHashLen == 2  \* hex digits of a digest given to hammingDistance
MaxHashCalls == 2 \* computeImageHash calls in one process
MaxData == 3     \* graphs given to one TrajectoryGraph instance
MaxRefLen == 2   \* characters of a freely chosen image reference
MaxLongPath == 19 \* steps of the one path played under SpecPlayback
MaxBuilds == 3   \* runs of the build effect of one TrajectoryVisualizer

(* Program constants *)

PaletteSize == 10
DEFAULT_CLUSTER_THRESHOLD == 0
NULL == -1

AllSrc == {"a", "b", "c", "d", "e", "f"}
Src == {"a", "b", "c"}
ScenarioStarts == {"a", "b"}
ScenarioMids == {"d", "e"}
ScenarioEnds == {"d", "e", "f"}
DetailCounts == 0..2
Models == {"m1", "m2"}
NoFilter == "all"

Min(a, b) == IF a < b THEN a ELSE b
Max(a, b) == IF a > b THEN a ELSE b

----------------------------------------------------------------------------
(* imageHash.js *)

\* the digest computeImageHash resolves to for each source; in this
\* specification the decode outcome of a source is fixed
ImageHash == [s \in AllSrc |-> CASE s = "a" -> <<1>>
                                 [] s = "b" -> <<3>>
                                 [] s = "c" -> <<1>>
                                 [] s = "d" -> <<8>>
                                 [] s = "e" -> <<12>>
                                 [] s = "f" -> <<6>>]

computeImageHash(src) == ImageHash[src]

Bit(n, k) == (n \div (2 ^ k)) % 2

\* (digitA ^ digitB).toString(2).replace(/0/g, '').length
PopXor(a, b) == Cardinality({k \in 0..3 : Bit(a, k) # Bit(b, k)})

\* String.prototype.padEnd(n, '0')
PadEnd(h, n) == [i \in 1..Max(n, Len(h)) |-> IF i <= Len(h) THEN h[i] ELSE 0]

RECURSIVE SumDist(_, _, _)
SumDist(a, b, i) ==
    IF i > Len(a) THEN 0 ELSE PopXor(a[i], b[i]) + SumDist(a, b, i + 1)

\* only the digits of hashA are walked
hammingDistance_lengthOfA(hashA, hashB) ==
    IF Len(hashA) = 0 /\ Len(hashB) = 0 THEN 0
    ELSE IF Len(hashA) = 0 \/ Len(hashB) = 0
         THEN Max(Len(hashA), Len(hashB)) * 4
         ELSE SumDist(hashA, PadEnd(hashB, Len(hashA)), 1)

hammingDistance(hashA, hashB) ==
    IF Len(hashA) = 0 /\ Len(hashB) = 0 THEN 0
    ELSE IF Len(hashA) = 0 \/ Len(hashB) = 0
         THEN Max(Len(hashA), Len(hashB)) * 4
         ELSE LET n == Max(Len(hashA), Len(hashB))
              IN  SumDist(PadEnd(hashA, n), PadEnd(hashB, n), 1)

hashesAreSimilar(hashA, hashB, threshold) ==
    hammingDistance(hashA, hashB) <= threshold

----------------------------------------------------------------------------
(* graphBuilder.js *)

FIRST_CONDITION_HASH == [i \in 1..64 |-> 15]

FirstNodeId == [kind |-> "condition-first", hash |-> <<>>]
HashNodeId(hash) == [kind |-> "hash", hash |-> hash]

\* details -> sequences; a detail without a usable screenshot is dropped
extractScreenshotSequences(traj) ==
    LET mapped == [i \in 1..Len(traj) |->
                     [detailIndex |-> i - 1,
                      screenshots |-> traj[i].screenshots]]
    IN  SelectSeq(mapped, LAMBDA e : Len(e.screenshots) > 0)

IndexOfId(seq, id) ==
    IF \E i \in 1..Len(seq) : seq[i].id = id
    THEN CHOOSE i \in 1..Len(seq) : seq[i].id = id
    ELSE 0

\* options.conditions: the companion array of details, which names the
\* model of each detail record
conditions == [k \in 1..Len(trajectory) |-> [model |-> trajectory[k].model]]

\* conditionMap.get(sequenceIndex) || {} (lines 330-337, 388)
conditionInfo(sequenceIndex) ==
    IF sequenceIndex + 1 \in DOMAIN conditions
    THEN conditions[sequenceIndex + 1]
    ELSE [model |-> ""]

\* the record pushed to node.occurrences (lines 390-408)
Occurrence(sequenceIndex, position) ==
    [sequenceIndex |-> sequenceIndex,
     position |-> position,
     detailIndex |->
        extractScreenshotSequences(trajectory)[sequenceIndex + 1].detailIndex,
     agentModel |-> conditionInfo(sequenceIndex).model]

\* the position-0 rule left out: every screenshot is keyed by its hash
NodeIdAt_hashOnly(position, src) == HashNodeId(computeImageHash(src))

NodeIdAt(position, src) ==
    IF position = 0 THEN FirstNodeId ELSE HashNodeId(computeImageHash(src))

\* node ids numbered by insertion instead of derived from the hash
ProcessPosition_counterIds(nm, sequenceIndex, position, src) ==
    LET isFirst == position = 0
        hash == IF isFirst THEN FIRST_CONDITION_HASH ELSE computeImageHash(src)
        known == \E i \in 1..Len(nm) : nm[i].hash = hash
        nm1 == IF known THEN nm
               ELSE Append(nm, [id |-> IF isFirst THEN FirstNodeId
                                       ELSE HashNodeId(<<Len(nm)>>),
                                hash |-> hash, src |-> src,
                                occurrences |-> <<>>, weight |-> 0,
                                isConditionFirst |-> isFirst,
                                clusterId |-> NULL, color |-> NULL])
        k == CHOOSE i \in 1..Len(nm1) : nm1[i].hash = hash
    IN  [nodeMap |-> [nm1 EXCEPT ![k].occurrences =
                                    Append(@, Occurrence(sequenceIndex, position)),
                                 ![k].weight = @ + 1],
         nodeId |-> nm1[k].id]

\* the node record built before the await and stored after it: a record
\* stored meanwhile under the same id is replaced
ProcessPosition_staleInsert(nm, sequenceIndex, position, src) ==
    LET nodeId == NodeIdAt(position, src)
        fresh == [id |-> nodeId,
                  hash |-> IF position = 0 THEN FIRST_CONDITION_HASH
                           ELSE computeImageHash(src),
                  src |-> src,
                  occurrences |-> <<Occurrence(sequenceIndex, position)>>,
                  weight |-> 1,
                  isConditionFirst |-> position = 0,
                  clusterId |-> NULL,
                  color |-> NULL]
        k == IndexOfId(nm, nodeId)
    IN  [nodeMap |-> IF k = 0 THEN Append(nm, fresh)
                     ELSE [nm EXCEPT ![k] = fresh],
         nodeId |-> nodeId]

\* body of the per-position loop once the hash is known (lines 371-418);
\* yields the node map and the id stored in sequenceNodeIds
ProcessPosition(nm, sequenceIndex, position, src) ==
    LET isFirst == position = 0
        nodeId  == NodeIdAt(position, src)
        nm1 == IF IndexOfId(nm, nodeId) = 0
               THEN Append(nm, [id |-> nodeId,
                                hash |-> IF isFirst THEN FIRST_CONDITION_HASH
                                         ELSE computeImageHash(src),
                                src |-> src,
                                occurrences |-> <<>>,
                                weight |-> 0,
                                isConditionFirst |-> isFirst,
                                clusterId |-> NULL,
                                color |-> NULL])
               ELSE nm
        k == IndexOfId(nm1, nodeId)
    IN  [nodeMap |-> [nm1 EXCEPT ![k].occurrences =
                                    Append(@, Occurrence(sequenceIndex, position)),
                                 ![k].weight = @ + 1],
         nodeId |-> nodeId]

\* the transitions walked by the link loop, in its order (lines 431-446)
RECURSIVE Transitions(_, _)
Transitions(snIds, s) ==
    IF s > Len(snIds) THEN <<>>
    ELSE [p \in 1..(Len(snIds[s]) - 1) |->
            [sequenceIndex |-> s - 1, position |-> p - 1,
             source |-> snIds[s][p], target |-> snIds[s][p + 1]]]
         \o Transitions(snIds, s + 1)

\* the key without the sequence index
LinkKey_noSequence(t) == [source |-> t.source, target |-> t.target,
                          sequenceIndex |-> NULL]

LinkKey(t) == [source |-> t.source, target |-> t.target,
               sequenceIndex |-> t.sequenceIndex]

\* the link loop without the skip of equal consecutive ids
UpsertLink_keepSelf(linksMap, t) ==
    LET key == LinkKey(t)
        lm1 == IF IndexOfId(linksMap, key) = 0
               THEN Append(linksMap,
                           [id |-> key, source |-> t.source,
                            target |-> t.target, count |-> 0,
                            occurrences |-> <<>>,
                            sequenceIndex |-> t.sequenceIndex,
                            color |-> t.sequenceIndex % PaletteSize,
                            synthetic |-> FALSE])
               ELSE linksMap
        k == IndexOfId(lm1, key)
    IN  [lm1 EXCEPT ![k].count = @ + 1,
                    ![k].occurrences =
                        Append(@, [sequenceIndex |-> t.sequenceIndex,
                                   position |-> t.position])]

\* lines 444-480
UpsertLink(linksMap, t) ==
    IF t.source = t.target THEN linksMap
    ELSE LET key == LinkKey(t)
             lm1 == IF IndexOfId(linksMap, key) = 0
                    THEN Append(linksMap,
                                [id |-> key, source |-> t.source,
                                 target |-> t.target, count |-> 0,
                                 occurrences |-> <<>>,
                                 sequenceIndex |-> t.sequenceIndex,
                                 color |-> t.sequenceIndex % PaletteSize,
                                 synthetic |-> FALSE])
                    ELSE linksMap
             k == IndexOfId(lm1, key)
         IN  [lm1 EXCEPT ![k].count = @ + 1,
                         ![k].occurrences =
                             Append(@, [sequenceIndex |-> t.sequenceIndex,
                                        position |-> t.position])]

RECURSIVE FoldLinks(_, _, _)
FoldLinks(linksMap, ts, i) ==
    IF i > Len(ts) THEN linksMap
    ELSE FoldLinks(UpsertLink(linksMap, ts[i]), ts, i + 1)

BuildLinks(snIds) == FoldLinks(<<>>, Transitions(snIds, 1), 1)

AssignedIds(clusters) == UNION {{c.nodeIds[j] : j \in 1..Len(c.nodeIds)} :
                                  c \in {clusters[i] : i \in 1..Len(clusters)}}

\* the scan without the comparison of isConditionFirst
ClusterMembers_noTypeCheck(nodes, index, assigned, threshold) ==
    LET node == nodes[index]
        joins(j) == /\ j > index
                    /\ nodes[j].id \notin assigned
                    /\ hashesAreSimilar(node.hash, nodes[j].hash, threshold)
    IN  SelectSeq([j \in 1..Len(nodes) |-> j],
                  LAMBDA j : j = index \/ joins(j))

\* a candidate joins when it is similar to any member gathered so far
RECURSIVE GrowMembers(_, _, _, _, _)
GrowMembers(nodes, j, members, assigned, threshold) ==
    IF j > Len(nodes) THEN members
    ELSE IF /\ nodes[j].id \notin assigned
            /\ nodes[j].isConditionFirst = nodes[members[1]].isConditionFirst
            /\ \E m \in 1..Len(members) :
                  hashesAreSimilar(nodes[members[m]].hash, nodes[j].hash,
                                   threshold)
         THEN GrowMembers(nodes, j + 1, Append(members, j), assigned, threshold)
         ELSE GrowMembers(nodes, j + 1, members, assigned, threshold)

ClusterMembers_transitive(nodes, index, assigned, threshold) ==
    GrowMembers(nodes, index + 1, <<index>>, assigned, threshold)

\* a candidate counts as clustered when it carries a clusterId
ClusterMembers_stampedSkipped(nodes, index, assigned, threshold) ==
    LET node == nodes[index]
        joins(j) == /\ j > index
                    /\ nodes[j].id \notin assigned
                    /\ nodes[j].clusterId = NULL
                    /\ nodes[j].isConditionFirst = node.isConditionFirst
                    /\ hashesAreSimilar(node.hash, nodes[j].hash, threshold)
    IN  SelectSeq([j \in 1..Len(nodes) |-> j],
                  LAMBDA j : j = index \/ joins(j))

\* members of the cluster seeded by nodes[index] (lines 277-294)
ClusterMembers(nodes, index, assigned, threshold) ==
    LET node == nodes[index]
        joins(j) == /\ j > index
                    /\ nodes[j].id \notin assigned
                    /\ nodes[j].isConditionFirst = node.isConditionFirst
                    /\ hashesAreSimilar(node.hash, nodes[j].hash, threshold)
    IN  SelectSeq([j \in 1..Len(nodes) |-> j],
                  LAMBDA j : j = index \/ joins(j))

\* one pass of nodes.forEach (lines 269-311); returns nodes and clusters
RECURSIVE ClusterScan(_, _, _, _)
ClusterScan(nodes, index, clusters, threshold) ==
    IF index > Len(nodes) THEN [nodes |-> nodes, clusters |-> clusters]
    ELSE IF nodes[index].id \in AssignedIds(clusters)
         THEN ClusterScan(nodes, index + 1, clusters, threshold)
         ELSE LET members == ClusterMembers(nodes, index,
                                            AssignedIds(clusters), threshold)
                  clusterId == Len(clusters)
                  color == Len(clusters) % PaletteSize
                  cluster == [id |-> clusterId, color |-> color,
                              nodeIds |-> [m \in 1..Len(members) |->
                                             nodes[members[m]].id],
                              representativeNodeId |-> nodes[index].id]
                  isMember(j) == \E m \in 1..Len(members) : members[m] = j
                  nodes1 == [j \in 1..Len(nodes) |->
                               IF isMember(j)
                               THEN [nodes[j] EXCEPT !.clusterId = clusterId,
                                                     !.color = color]
                               ELSE nodes[j]]
              IN  ClusterScan(nodes1, index + 1,
                              Append(clusters, cluster), threshold)

\* buildClusters, with the nodes it mutates
buildClusters(nodes, similarityThreshold) ==
    LET r == ClusterScan(nodes, 1, <<>>, similarityThreshold)
        clusterOf(id) ==
            IF \E i \in 1..Len(r.clusters) :
                 \E j \in 1..Len(r.clusters[i].nodeIds) :
                     r.clusters[i].nodeIds[j] = id
            THEN CHOOSE i \in 1..Len(r.clusters) :
                 \E j \in 1..Len(r.clusters[i].nodeIds) :
                     r.clusters[i].nodeIds[j] = id
            ELSE 0
        \* second pass (lines 313-320)
        nodes2 == [j \in 1..Len(r.nodes) |->
                     IF r.nodes[j].clusterId = NULL
                        /\ clusterOf(r.nodes[j].id) # 0
                     THEN [r.nodes[j] EXCEPT
                             !.clusterId = r.clusters[clusterOf(r.nodes[j].id)].id,
                             !.color = r.clusters[clusterOf(r.nodes[j].id)].color]
                     ELSE r.nodes[j]]
    IN  [nodes |-> nodes2, clusters |-> r.clusters]

EMPTY_GRAPH == [nodes |-> <<>>, links |-> <<>>, clusters |-> <<>>,
                totalSequences |-> 0, totalScreenshots |-> 0]

\* the value buildTrajectoryGraph resolves to (lines 423-564)
BuiltGraph(nm, snIds, occCount, threshold) ==
    LET links == BuildLinks(snIds)
        c == buildClusters(nm, threshold)
    IN  [nodes |-> c.nodes, links |-> links, clusters |-> c.clusters,
         totalSequences |-> Len(snIds), totalScreenshots |-> occCount]

----------------------------------------------------------------------------
(* TrajectoryGraph: what the layout effect derives from its graph prop *)

PositionsOf(occurrences, s) ==
    LET own == SelectSeq(occurrences, LAMBDA o : o.sequenceIndex = s)
    IN  [i \in 1..Len(own) |-> own[i].position]

\* the scan without the update after the loop: the last run is forgotten
RECURSIVE RunScan_noFinalUpdate(_, _, _, _)
RunScan_noFinalUpdate(sorted, i, currentRun, maxRun) ==
    IF i > Len(sorted) THEN maxRun
    ELSE IF sorted[i] = sorted[i - 1] + 1 \/ sorted[i] = sorted[i - 1]
         THEN RunScan_noFinalUpdate(sorted, i + 1, currentRun + 1, maxRun)
         ELSE RunScan_noFinalUpdate(sorted, i + 1, 1, Max(currentRun, maxRun))

\* the scan over one sequence's sorted positions; yields the longest run
RECURSIVE RunScan(_, _, _, _)
RunScan(sorted, i, currentRun, maxRun) ==
    IF i > Len(sorted) THEN Max(currentRun, maxRun)
    ELSE IF sorted[i] = sorted[i - 1] + 1 \/ sorted[i] = sorted[i - 1]
         THEN RunScan(sorted, i + 1, currentRun + 1, maxRun)
         ELSE RunScan(sorted, i + 1, 1, Max(currentRun, maxRun))

getMaxConsecutiveConditionRun(occurrences) ==
    IF Len(occurrences) < 2 THEN 0
    ELSE LET seqs == {occurrences[i].sequenceIndex : i \in 1..Len(occurrences)}
             runOf(s) == RunScan(SortSeq(PositionsOf(occurrences, s),
                                         LAMBDA a, b : a < b), 2, 1, 0)
             maxRun == CHOOSE m \in {runOf(s) : s \in seqs} :
                           \A s \in seqs : runOf(s) <= m
         IN  IF maxRun >= 2 THEN maxRun ELSE 0

\* occurrences.reduce(...) of the layout-order pass: the occurrence with
\* the least (sequenceIndex, position)
primaryOccurrence(occurrences) ==
    CHOOSE o \in {occurrences[i] : i \in 1..Len(occurrences)} :
        \A i \in 1..Len(occurrences) :
            \/ o.sequenceIndex < occurrences[i].sequenceIndex
            \/ /\ o.sequenceIndex = occurrences[i].sequenceIndex
               /\ o.position <= occurrences[i].position

LoopId(nodeId) == [source |-> nodeId, target |-> nodeId, sequenceIndex |-> NULL]

syntheticSelfLinks(nodes, links) ==
    LET existingSelfLoopNodeIds ==
            {links[i].source : i \in {j \in 1..Len(links) :
                                        links[j].source = links[j].target}}
        looped == SelectSeq(nodes, LAMBDA n :
                      /\ getMaxConsecutiveConditionRun(n.occurrences) > 0
                      /\ n.id \notin existingSelfLoopNodeIds)
    IN  [i \in 1..Len(looped) |->
           LET n == looped[i]
               primary == primaryOccurrence(n.occurrences)
           IN  [id |-> LoopId(n.id), source |-> n.id, target |-> n.id,
                count |-> getMaxConsecutiveConditionRun(n.occurrences),
                occurrences |-> <<>>,
                sequenceIndex |-> primary.sequenceIndex,
                color |-> primary.sequenceIndex % PaletteSize,
                synthetic |-> TRUE]]

\* nodes, augmentedLinks and the clusters that are drawn
Render(g) ==
    [nodes |-> g.nodes,
     links |-> g.links \o syntheticSelfLinks(g.nodes, g.links),
     clusters |-> SelectSeq(g.clusters, LAMBDA c :
                     Cardinality({j \in 1..Len(c.nodeIds) :
                        IndexOfId(g.nodes, c.nodeIds[j]) # 0}) > 1)]

----------------------------------------------------------------------------
(* TrajectoryVisualizer.jsx *)

legendEntries(traj) ==
    [i \in 1..Len(traj) |-> [model |-> traj[i].model, sequenceIndex |-> i - 1]]

availableModels(traj) == {traj[i].model : i \in 1..Len(traj)}

\* the node filter without the test of the occurrences: a node is kept
\* only when nodeIdsFromLinks holds it
filteredGraph_linkNodesOnly(g, traj, fv) ==
    IF fv = NoFilter THEN g
    ELSE LET le == legendEntries(traj)
             allowedSeq == {le[i].sequenceIndex :
                              i \in {j \in 1..Len(le) : le[j].model = fv}}
             links == SelectSeq(g.links,
                                LAMBDA l : l.sequenceIndex \in allowedSeq)
             nodeIdsFromLinks == {links[i].source : i \in 1..Len(links)}
             nodes == SelectSeq(g.nodes, LAMBDA n : n.id \in nodeIdsFromLinks)
         IN  IF allowedSeq = {}
             THEN [g EXCEPT !.nodes = <<>>, !.links = <<>>, !.clusters = <<>>]
             ELSE [g EXCEPT !.nodes = nodes, !.links = links,
                            !.clusters = <<>>]

filteredGraph(g, traj, fv) ==
    IF fv = NoFilter THEN g
    ELSE LET le == legendEntries(traj)
             allowedSeq == {le[i].sequenceIndex :
                              i \in {j \in 1..Len(le) : le[j].model = fv}}
             links == SelectSeq(g.links,
                                LAMBDA l : l.sequenceIndex \in allowedSeq)
             nodeIdsFromLinks == {links[i].source : i \in 1..Len(links)}
             nodes == SelectSeq(g.nodes, LAMBDA n :
                         \/ n.id \in nodeIdsFromLinks
                         \/ \E i \in 1..Len(n.occurrences) :
                              n.occurrences[i].sequenceIndex \in allowedSeq)
             nodeIdSet == {nodes[i].id : i \in 1..Len(nodes)}
             narrowed == [i \in 1..Len(g.clusters) |->
                            [g.clusters[i] EXCEPT !.nodeIds =
                                SelectSeq(@, LAMBDA id : id \in nodeIdSet)]]
             clusters == SelectSeq(narrowed, LAMBDA c : Len(c.nodeIds) > 0)
         IN  IF allowedSeq = {}
             THEN [g EXCEPT !.nodes = <<>>, !.links = <<>>, !.clusters = <<>>]
             ELSE [g EXCEPT !.nodes = nodes, !.links = links,
                            !.clusters = clusters]

Sequences == extractScreenshotSequences(trajectory)

\* the synchronous prefix of every per-sequence async function: position 0
\* needs no hash, so it is handled before the first await (lines 361-419)
RECURSIVE FirstPositions(_, _, _)
FirstPositions(nm, seqs, s) ==
    IF s > Len(seqs) THEN nm
    ELSE FirstPositions(
             ProcessPosition(nm, s - 1, 0, seqs[s].screenshots[1]).nodeMap,
             seqs, s + 1)

\* build effect: buildTrajectoryGraph is called and runs up to its awaits
StartBuild ==
    /\ buildPhase = "idle"
    /\ IF Len(Sequences) = 0
       THEN /\ buildPhase' = "built"
            /\ graph' = EMPTY_GRAPH
            /\ view' = Render(filteredGraph(EMPTY_GRAPH, trajectory, filterValue))
            /\ UNCHANGED <<cursor, nodeMap, sequenceNodeIds, occurrenceCount>>
       ELSE /\ buildPhase' = "hashing"
            /\ nodeMap' = FirstPositions(<<>>, Sequences, 1)
            /\ cursor' = [s \in 1..Len(Sequences) |-> 1]
            /\ sequenceNodeIds' =
                  [s \in 1..Len(Sequences) |->
                     <<NodeIdAt(0, Sequences[s].screenshots[1])>>]
            /\ occurrenceCount' = Len(Sequences)
            /\ UNCHANGED <<graph, view>>
    /\ UNCHANGED <<trajectory, clusterThreshold, filterValue>>
    /\ UNCHANGED nonBuildVars

\* the awaited computeImageHash of sequence s settles; its loop body runs
HashResolved(s) ==
    /\ buildPhase = "hashing"
    /\ cursor[s] < Len(Sequences[s].screenshots)
    /\ LET r == ProcessPosition(nodeMap, s - 1, cursor[s],
                                Sequences[s].screenshots[cursor[s] + 1])
       IN  /\ nodeMap' = r.nodeMap
           /\ sequenceNodeIds' =
                  [sequenceNodeIds EXCEPT ![s] = Append(@, r.nodeId)]
    /\ cursor' = [cursor EXCEPT ![s] = @ + 1]
    /\ occurrenceCount' = occurrenceCount + 1
    /\ UNCHANGED <<trajectory, clusterThreshold, buildPhase, graph,
                   filterValue, view>>
    /\ UNCHANGED nonBuildVars

\* Promise.all settles: links, clusters, then setGraph and the re-render
FinishBuild ==
    /\ buildPhase = "hashing"
    /\ \A s \in 1..Len(Sequences) : cursor[s] = Len(Sequences[s].screenshots)
    /\ buildPhase' = "built"
    /\ graph' = BuiltGraph(nodeMap, sequenceNodeIds, occurrenceCount,
                           clusterThreshold)
    /\ view' = Render(filteredGraph(graph', trajectory, filterValue))
    /\ UNCHANGED <<trajectory, clusterThreshold, cursor, nodeMap,
                   sequenceNodeIds, occurrenceCount, filterValue>>
    /\ UNCHANGED nonBuildVars

\* the user picks a model filter (or 'all'); filteredGraph is recomputed.
\* Taken once the build has settled: a filter chosen earlier gives the same
\* filterValue, graph and view after FinishBuild.
SetFilter(fv) ==
    /\ buildPhase = "built"
    /\ fv \in {NoFilter} \cup availableModels(trajectory)
    /\ fv # filterValue
    /\ filterValue' = fv
    /\ view' = Render(filteredGraph(graph, trajectory, fv))
    /\ UNCHANGED <<trajectory, clusterThreshold, buildPhase, cursor, nodeMap,
                   sequenceNodeIds, occurrenceCount, graph>>
    /\ UNCHANGED nonBuildVars

Details(n) == [screenshots : [1..n -> Src], model : Models]
ScenarioDetails(model) ==
    {[screenshots |-> <<x, y, z>>, model |-> model] :
        x \in ScenarioStarts, y \in ScenarioMids, z \in ScenarioEnds}

\* everything but the trajectory, as TrajectoryVisualizer is constructed
\* the parts of the state a specification does not exercise
NoCluster == clusterInput = <<>> /\ clusterOutput = <<>> /\ clusterCalls = 0
NoHighlight == hl = <<>>
NoDistance == leftHash = <<>> /\ rightHash = <<>> /\ distance = NULL
NoHashing == hashCache = <<>> /\ hashCalls = <<>> /\ subtle = FALSE
NoLayout == layout = <<>>
NotExtracted == [done |-> FALSE, shots |-> <<>>]
NoExtract == rawShots = <<>> /\ keptShots = NotExtracted
NoRebuild == rebuild = <<>>

BuildRest ==
    /\ clusterThreshold = DEFAULT_CLUSTER_THRESHOLD
    /\ buildPhase = "idle"
    /\ cursor = <<>>
    /\ nodeMap = <<>>
    /\ sequenceNodeIds = <<>>
    /\ occurrenceCount = 0
    /\ graph = EMPTY_GRAPH
    /\ filterValue = NoFilter
    /\ view = Render(EMPTY_GRAPH)

InitRest ==
    /\ BuildRest
    /\ NoCluster
    /\ NoHighlight
    /\ NoDistance
    /\ NoHashing
    /\ NoLayout
    /\ NoExtract
    /\ NoRebuild

NoBuild == trajectory = <<>> /\ BuildRest

\* trajectories of up to two runs; the first run's model is named "m1"
InitBuild ==
    /\ \E d \in DetailCounts :
       \E n1 \in 0..MaxShots :
       \E n2 \in 0..(MaxShots - n1) :
          \/ d = 0 /\ n1 = 0 /\ n2 = 0 /\ trajectory = <<>>
          \/ d = 1 /\ n2 = 0 /\ \E a \in Details(n1) : trajectory = <<a>>
          \/ d = 2 /\ \E a \in Details(n1), b \in Details(n2) :
                         trajectory = <<a, b>>
    /\ trajectory # <<>> => trajectory[1].model = "m1"
    /\ InitRest

\* the scenario trajectories: two runs of three screenshots each
InitScenario ==
    /\ \E a \in ScenarioDetails("m1"), b \in ScenarioDetails("m2") :
          trajectory = <<a, b>>
    /\ InitRest

NextBuild ==
    \/ StartBuild
    \/ \E s \in 1..Len(Sequences) : HashResolved(s)
    \/ FinishBuild
    \/ \E fv \in {NoFilter} \cup Models : SetFilter(fv)

SpecBuild == InitBuild /\ [][NextBuild]_vars

SpecScenario == InitScenario /\ [][NextBuild]_vars

----------------------------------------------------------------------------
(* Properties of the graph build *)

Built == buildPhase = "built"

IdsOf(seq) == {seq[i].id : i \in 1..Len(seq)}

Range(seq) == {seq[i] : i \in 1..Len(seq)}

\* sequence s (1-based) holds node id n at two consecutive positions
RepeatsIn(s, n) ==
    \E p \in 1..(Len(sequenceNodeIds[s]) - 1) :
        sequenceNodeIds[s][p] = n /\ sequenceNodeIds[s][p + 1] = n

\* C1: the built graph holds no link whose source id equals its target id.
C1_NoSelfLinks ==
    \A l \in Range(graph.links) : l.source # l.target

\* a run visited one node at two consecutive positions, and links exist
C1_Witness ==
    /\ Built
    /\ Len(graph.links) > 0
    /\ \E s \in 1..Len(sequenceNodeIds) :
          \E n \in IdsOf(graph.nodes) : RepeatsIn(s, n)

\* C2: position 0 of every sequence maps to the reserved id, and a built
\* graph of at least one sequence holds exactly one first-of-run node.
C2_FirstScreenshot ==
    /\ \A s \in 1..Len(sequenceNodeIds) : sequenceNodeIds[s][1] = FirstNodeId
    /\ (Built /\ Len(Sequences) > 0) =>
          /\ Cardinality({i \in 1..Len(graph.nodes) :
                            graph.nodes[i].isConditionFirst}) = 1
          /\ \A n \in Range(graph.nodes) :
                n.isConditionFirst <=> n.id = FirstNodeId

\* two runs whose first screenshots differ in source and in fingerprint
C2_Witness ==
    /\ Built
    /\ Len(Sequences) = 2
    /\ computeImageHash(Sequences[1].screenshots[1])
          # computeImageHash(Sequences[2].screenshots[1])

\* the run of the build in which the hashes of sequence 0 all settle before
\* those of sequence 1, and so on
RECURSIVE InOrder(_, _, _, _)
InOrder(acc, seqs, s, p) ==
    IF s > Len(seqs) THEN acc
    ELSE IF p > Len(seqs[s].screenshots) THEN InOrder(acc, seqs, s + 1, 2)
         ELSE LET r == ProcessPosition(acc.nodeMap, s - 1, p - 1,
                                       seqs[s].screenshots[p])
              IN  InOrder([nodeMap |-> r.nodeMap,
                           snIds |-> [acc.snIds EXCEPT ![s] =
                                         Append(@, r.nodeId)]],
                          seqs, s, p + 1)

InOrderBuild(seqs) ==
    InOrder([nodeMap |-> FirstPositions(<<>>, seqs, 1),
             snIds |-> [s \in 1..Len(seqs) |->
                          <<NodeIdAt(0, seqs[s].screenshots[1])>>]],
            seqs, 1, 2)

\* C4: whatever the order in which the hashes settled, the built graph has
\* the node ids and the link ids of the in-order run on the same input, so
\* any two runs on it agree.
C4_Determinism ==
    Built =>
        LET ref == InOrderBuild(Sequences)
        IN  /\ IdsOf(graph.nodes) = IdsOf(ref.nodeMap)
            /\ IdsOf(graph.links) = IdsOf(BuildLinks(ref.snIds))

\* a build whose hashes settled in another order than in the in-order run
C4_Witness ==
    /\ Built
    /\ Len(graph.links) > 1
    /\ [i \in 1..Len(graph.nodes) |-> graph.nodes[i].id]
          # [i \in 1..Len(nodeMap) |-> InOrderBuild(Sequences).nodeMap[i].id]

\* the scenario of C5: two runs of three screenshots, the middle ones with
\* one fingerprint, all other fingerprints distinct
ScenarioCase ==
    /\ Built
    /\ Len(trajectory) = 2
    /\ Len(trajectory[1].screenshots) = 3
    /\ Len(trajectory[2].screenshots) = 3
    /\ LET A == trajectory[1].screenshots
           B == trajectory[2].screenshots
       IN  /\ computeImageHash(A[2]) = computeImageHash(B[2])
           /\ Cardinality({computeImageHash(x) :
                             x \in {A[1], A[2], A[3], B[1], B[3]}}) = 5

MidId == HashNodeId(computeImageHash(trajectory[1].screenshots[2]))

\* C5 as stated: 5 nodes, two of them start nodes, and 4 links.
C5_AsStated ==
    ScenarioCase =>
        /\ Len(graph.nodes) = 5
        /\ Cardinality({i \in 1..Len(graph.nodes) :
                          graph.nodes[i].isConditionFirst}) = 2
        /\ Len(graph.links) = 4

\* C5, amended: the scenario gives exactly 4 nodes (the one first-of-run
\* node shared by both runs, the shared mid node, two distinct end nodes)
\* and exactly 4 links, two entering and two leaving the shared mid node.
C5_Scenario ==
    ScenarioCase =>
        /\ Len(graph.nodes) = 4
        /\ Cardinality({i \in 1..Len(graph.nodes) :
                          graph.nodes[i].isConditionFirst}) = 1
        /\ \E i \in 1..Len(graph.nodes) :
              graph.nodes[i].id = MidId /\ graph.nodes[i].weight = 2
        /\ Cardinality({i \in 1..Len(graph.nodes) :
                          /\ ~graph.nodes[i].isConditionFirst
                          /\ graph.nodes[i].id # MidId
                          /\ graph.nodes[i].weight = 1}) = 2
        /\ Len(graph.links) = 4
        /\ Cardinality({i \in 1..Len(graph.links) :
                          graph.links[i].target = MidId}) = 2
        /\ Cardinality({i \in 1..Len(graph.links) :
                          graph.links[i].source = MidId}) = 2

C5_Witness == ScenarioCase /\ filterValue = NoFilter

\* the case of C6: one run whose node ids are [X, Y, Y, Y, Z]
RepeatCase ==
    /\ Built
    /\ filterValue = NoFilter
    /\ Len(trajectory) = 1
    /\ Len(sequenceNodeIds) = 1
    /\ Len(sequenceNodeIds[1]) = 5
    /\ LET ids == sequenceNodeIds[1]
       IN  /\ ids[2] = ids[3] /\ ids[3] = ids[4]
           /\ Cardinality({ids[1], ids[2], ids[5]}) = 3

\* C6: for [X, Y, Y, Y, Z] the build returns exactly the links X->Y and
\* Y->Z, each with count 1, and exactly one synthetic self-loop is drawn,
\* on Y, with count 3.
C6_RepeatScenario ==
    RepeatCase =>
        LET ids == sequenceNodeIds[1]
            loops == {l \in Range(view.links) : l.synthetic}
        IN  /\ Len(graph.links) = 2
            /\ \E l \in Range(graph.links) :
                  l.source = ids[1] /\ l.target = ids[2] /\ l.count = 1
            /\ \E l \in Range(graph.links) :
                  l.source = ids[4] /\ l.target = ids[5] /\ l.count = 1
            /\ Cardinality({i \in 1..Len(view.links) :
                              view.links[i].synthetic}) = 1
            /\ \A l \in loops :
                  l.source = ids[2] /\ l.target = ids[2] /\ l.count = 3

C6_Witness == RepeatCase /\ Len(view.links) = 3

\* the sequences (0-based indexes) whose detail record names model m
SequencesUsing(m) ==
    {s - 1 : s \in {k \in 1..Len(Sequences) :
                       trajectory[Sequences[k].detailIndex + 1].model = m}}

\* C7: under the filter model = m1, when only sequence 0 used m1, what is
\* drawn holds only nodes visited by sequence 0, only links of sequence 0,
\* and a synthetic self-loop only where sequence 0 itself repeated a node.
C7_FilterBySequence ==
    (Built /\ filterValue = "m1" /\ SequencesUsing("m1") = {0}) =>
        /\ \A n \in Range(view.nodes) :
              \E o \in Range(n.occurrences) : o.sequenceIndex = 0
        /\ \A l \in Range(view.links) :
              IF l.synthetic THEN RepeatsIn(1, l.source)
              ELSE /\ l.sequenceIndex = 0
                   /\ \E p \in 1..(Len(sequenceNodeIds[1]) - 1) :
                         /\ sequenceNodeIds[1][p] = l.source
                         /\ sequenceNodeIds[1][p + 1] = l.target

\* C16: every occurrence of a screenshot of details[k] carries the model of
\* conditions[k], also when an earlier detail record was dropped for having
\* no usable screenshot.
C16_StampByDetail ==
    Built =>
        \A n \in Range(graph.nodes) : \A o \in Range(n.occurrences) :
            o.agentModel = conditions[o.detailIndex + 1].model

\* the positions (1-based) of sequence s at which the walk goes from a to b
Steps(s, a, b) ==
    {p \in 1..(Len(sequenceNodeIds[s]) - 1) :
        sequenceNodeIds[s][p] = a /\ sequenceNodeIds[s][p + 1] = b}

\* C23: the build returns at most one link per (source, target,
\* sequenceIndex); the count of a link is the length of its occurrences list
\* and the number of positions of its own sequence that step from its source
\* to its target, the two being distinct; every such step has its link, and
\* no link holds a step of another sequence.
C23_LinkPerTriple ==
    Built =>
        /\ \A i, j \in 1..Len(graph.links) :
              i # j =>
                 <<graph.links[i].source, graph.links[i].target,
                   graph.links[i].sequenceIndex>>
                 # <<graph.links[j].source, graph.links[j].target,
                     graph.links[j].sequenceIndex>>
        /\ \A l \in Range(graph.links) :
              /\ l.source # l.target
              /\ l.count = Len(l.occurrences)
              /\ l.count = Cardinality(Steps(l.sequenceIndex + 1,
                                             l.source, l.target))
              /\ \A o \in Range(l.occurrences) :
                    /\ o.sequenceIndex = l.sequenceIndex
                    /\ o.position + 1 \in Steps(l.sequenceIndex + 1,
                                                l.source, l.target)
        /\ \A s \in 1..Len(sequenceNodeIds) :
           \A p \in 1..(Len(sequenceNodeIds[s]) - 1) :
              sequenceNodeIds[s][p] # sequenceNodeIds[s][p + 1] =>
                 \E l \in Range(graph.links) :
                    /\ l.sequenceIndex = s - 1
                    /\ l.source = sequenceNodeIds[s][p]
                    /\ l.target = sequenceNodeIds[s][p + 1]

\* two runs took the same step between two nodes: two parallel links
C23_Witness ==
    /\ Built
    /\ \E k, l \in Range(graph.links) :
          /\ k.source = l.source
          /\ k.target = l.target
          /\ k.sequenceIndex # l.sequenceIndex

RECURSIVE SumWeights(_, _)
SumWeights(nodes, i) ==
    IF i > Len(nodes) THEN 0 ELSE nodes[i].weight + SumWeights(nodes, i + 1)

\* the (sequence, position) entries of sequenceNodeIds that hold id
EntriesOf(id) ==
    {e \in UNION {{<<s, p>> : p \in 1..Len(sequenceNodeIds[s])} :
                     s \in 1..Len(sequenceNodeIds)} :
        sequenceNodeIds[e[1]][e[2]] = id}

\* C24: in whatever order the awaited hashes of the sequences settled, the
\* build ends with one node record per node id; the weight of a node is the
\* length of its occurrences list and the number of (sequence, position)
\* entries mapped to its id, each entry being listed once; the weights add
\* up to meta.totalScreenshots, the number of screenshots of all sequences.
C24_NodeBookkeeping ==
    Built =>
        /\ \A i, j \in 1..Len(graph.nodes) :
              i # j => graph.nodes[i].id # graph.nodes[j].id
        /\ \A s \in 1..Len(sequenceNodeIds) :
           \A p \in 1..Len(sequenceNodeIds[s]) :
              sequenceNodeIds[s][p] \in IdsOf(graph.nodes)
        /\ \A n \in Range(graph.nodes) :
              /\ n.weight = Len(n.occurrences)
              /\ n.weight = Cardinality(EntriesOf(n.id))
              /\ {<<o.sequenceIndex + 1, o.position + 1>> :
                     o \in Range(n.occurrences)} = EntriesOf(n.id)
        /\ SumWeights(graph.nodes, 1) = graph.totalScreenshots
        /\ LET shots == [s \in 1..Len(Sequences) |->
                           [weight |-> Len(Sequences[s].screenshots)]]
           IN  graph.totalScreenshots = SumWeights(shots, 1)

\* a node visited by both runs whose occurrence of sequence 1 was recorded
\* before its occurrence of sequence 0: the loops were interleaved
C24_Witness ==
    /\ Built
    /\ \E n \in Range(graph.nodes) :
          /\ ~n.isConditionFirst
          /\ n.weight >= 2
          /\ n.occurrences[1].sequenceIndex > n.occurrences[2].sequenceIndex

\* allowedSeq of the filter in force (TrajectoryVisualizer.jsx:286-295)
AllowedSeq ==
    LET le == legendEntries(trajectory)
    IN  {le[i].sequenceIndex :
            i \in {j \in 1..Len(le) : le[j].model = filterValue}}

\* the links drawn that came from the graph
DrawnLinks == SelectSeq(view.links, LAMBDA l : ~l.synthetic)

\* C25: under a filter whose allowed sequence set is not empty, the links
\* shown are exactly the links of the graph whose sequenceIndex is allowed,
\* the nodes shown are exactly the nodes that are an endpoint of a link
\* shown or have an occurrence in an allowed sequence, and both ends of
\* every link shown are among the nodes shown.
C25_FilteredGraph ==
    (Built /\ filterValue # NoFilter /\ AllowedSeq # {}) =>
        LET kept(n) ==
                \/ \E l \in Range(DrawnLinks) :
                      n.id = l.source \/ n.id = l.target
                \/ \E o \in Range(n.occurrences) :
                      o.sequenceIndex \in AllowedSeq
        IN  /\ DrawnLinks = SelectSeq(graph.links,
                               LAMBDA l : l.sequenceIndex \in AllowedSeq)
            /\ view.nodes = SelectSeq(graph.nodes, kept)
            /\ \A l \in Range(DrawnLinks) :
                  /\ l.source \in IdsOf(view.nodes)
                  /\ l.target \in IdsOf(view.nodes)

\* a filter that keeps some links and drops others, and drops a node
C25_Witness ==
    /\ Built
    /\ filterValue # NoFilter
    /\ Len(DrawnLinks) >= 1
    /\ Len(DrawnLinks) < Len(graph.links)
    /\ Len(view.nodes) < Len(graph.nodes)

\* the longest run of consecutive positions of sequence s (1-based) that
\* hold node id; 0 when the sequence never visits it
LongestRun(s, id) ==
    LET ids == sequenceNodeIds[s]
        runs == {b - a + 1 : <<a, b>> \in
                    {r \in (1..Len(ids)) \X (1..Len(ids)) :
                        /\ r[1] <= r[2]
                        /\ \A p \in r[1]..r[2] : ids[p] = id}}
    IN  IF runs = {} THEN 0 ELSE CHOOSE m \in runs : \A k \in runs : k <= m

\* C28: a node drawn gets a synthetic self-loop exactly when some sequence
\* holds it at 2 or more consecutive positions (the build returns no literal
\* self-link); the loop carries the length of the longest such run as its
\* count, and its sequenceIndex and color are those of a sequence that
\* produced a run of that length.
C28_LoopOfLongestRun ==
    Built =>
        \A n \in Range(view.nodes) :
            LET best == CHOOSE m \in {LongestRun(s, n.id) :
                                         s \in 1..Len(sequenceNodeIds)} :
                            \A s \in 1..Len(sequenceNodeIds) :
                                LongestRun(s, n.id) <= m
                loops == {i \in 1..Len(view.links) :
                             /\ view.links[i].synthetic
                             /\ view.links[i].source = n.id}
            IN  /\ Cardinality(loops) = IF best >= 2 THEN 1 ELSE 0
                /\ \A i \in loops :
                      LET l == view.links[i]
                      IN  /\ l.target = n.id
                          /\ l.count = best
                          /\ LongestRun(l.sequenceIndex + 1, n.id) = best
                          /\ l.color = l.sequenceIndex % PaletteSize

----------------------------------------------------------------------------
(* TrajectoryVisualizer.jsx: the build effect over several requests (lines
   113-154).

   rebuild.runs lists the runs of the effect, one per change of its
   dependencies.  Each run has its own isMounted flag, cleared by the
   cleanup React runs before the next run and at unmount, and the promise of
   its buildTrajectoryGraph call.  rebuild.graph is the graph state: the run
   whose outcome it holds (0 before any) and whether it is EMPTY_GRAPH. *)

Dependencies == {"trajectory", "conditions", "clusterThreshold"}

\* the guard left out of the promise callbacks
StillMounted_unchecked(run) == TRUE

\* if (isMounted) in then, catch and finally
StillMounted(run) == run.isMounted

\* a dependency changes: the cleanup of the latest run, then the effect
RequestBuild(changed, hasTrajectory) ==
    /\ rebuild.mounted
    /\ Len(rebuild.runs) < MaxBuilds
    /\ Len(rebuild.runs) = 0 => changed = "trajectory"
    /\ changed # "trajectory" =>
          hasTrajectory = rebuild.runs[Len(rebuild.runs)].hasTrajectory
    /\ LET k == Len(rebuild.runs) + 1
           cleaned == [i \in 1..Len(rebuild.runs) |->
                         [rebuild.runs[i] EXCEPT !.isMounted = FALSE]]
           run == [changed |-> changed, hasTrajectory |-> hasTrajectory,
                   isMounted |-> TRUE,
                   promise |-> IF hasTrajectory THEN "pending" ELSE "none"]
       IN  rebuild' = [rebuild EXCEPT
              !.runs = Append(cleaned, run),
              !.graph = IF hasTrajectory THEN @
                        ELSE [run |-> k, empty |-> TRUE],
              !.isProcessing = hasTrajectory]
    /\ UNCHANGED nonRebuildVars

\* the promise of run k settles: then or catch, and finally
BuildSettles(k, fulfilled) ==
    /\ k \in 1..Len(rebuild.runs)
    /\ rebuild.runs[k].promise = "pending"
    /\ IF StillMounted(rebuild.runs[k])
       THEN rebuild' = [rebuild EXCEPT
               !.runs[k].promise = "applied",
               !.graph = [run |-> k, empty |-> ~fulfilled],
               !.isProcessing = FALSE]
       ELSE rebuild' = [rebuild EXCEPT !.runs[k].promise = "ignored"]
    /\ UNCHANGED nonRebuildVars

\* TrajectoryVisualizer is unmounted: the cleanup of the latest run
UnmountVisualizer ==
    /\ rebuild.mounted
    /\ rebuild' = [rebuild EXCEPT
          !.mounted = FALSE,
          !.runs = [i \in 1..Len(@) |-> [@[i] EXCEPT !.isMounted = FALSE]]]
    /\ UNCHANGED nonRebuildVars

InitRebuild ==
    /\ rebuild = [mounted |-> TRUE, runs |-> <<>>,
                  graph |-> [run |-> 0, empty |-> TRUE],
                  isProcessing |-> FALSE]
    /\ NoBuild
    /\ NoCluster
    /\ NoHighlight
    /\ NoDistance
    /\ NoHashing
    /\ NoLayout
    /\ NoExtract

NextRebuild ==
    \/ \E changed \in Dependencies : \E hasTrajectory \in BOOLEAN :
          RequestBuild(changed, hasTrajectory)
    \/ \E k \in 1..Len(rebuild.runs) : \E fulfilled \in BOOLEAN :
          BuildSettles(k, fulfilled)
    \/ UnmountVisualizer

SpecRebuild == InitRebuild /\ [][NextRebuild]_vars

\* C29: the graph state changes only to the outcome of the latest run of the
\* build effect (the result of its build, or the empty graph); a build that
\* settles after a newer one was requested leaves the graph state alone,
\* whichever of the two settles first.
C29_OnlyLatestBuildApplied ==
    [][/\ rebuild'.graph # rebuild.graph =>
             rebuild'.graph.run = Len(rebuild'.runs)
       /\ \A k \in 1..Len(rebuild.runs) :
             (/\ k < Len(rebuild.runs)
              /\ rebuild.runs[k].promise = "pending"
              /\ rebuild'.runs[k].promise # "pending")
             => rebuild'.graph = rebuild.graph]_vars

\* the first build settled after the second was requested and after the
\* second had settled; the graph holds the result of the second
C29_Witness ==
    /\ Len(rebuild.runs) = 2
    /\ rebuild.runs[1].promise = "ignored"
    /\ rebuild.runs[2].promise = "applied"
    /\ rebuild.runs[2].changed = "clusterThreshold"
    /\ rebuild.graph = [run |-> 2, empty |-> FALSE]

----------------------------------------------------------------------------
(* buildClusters on the node lists a build can hand to it: the first-of-run
   node, inserted first, followed by nodes of pairwise distinct hashes *)

ClusterHashes == {<<0>>, <<1>>, <<3>>, <<7>>, <<1, 0>>, FIRST_CONDITION_HASH,
                  [i \in 1..64 |-> IF i = 64 THEN 14 ELSE 15]}

FirstNode == [id |-> FirstNodeId, hash |-> FIRST_CONDITION_HASH, src |-> "a",
              occurrences |-> <<[sequenceIndex |-> 0, position |-> 0]>>,
              weight |-> 1, isConditionFirst |-> TRUE,
              clusterId |-> NULL, color |-> NULL]

HashedNode(hash) == [id |-> HashNodeId(hash), hash |-> hash, src |-> "a",
                     occurrences |-> <<[sequenceIndex |-> 0, position |-> 1]>>,
                     weight |-> 1, isConditionFirst |-> FALSE,
                     clusterId |-> NULL, color |-> NULL]

NodeLists ==
    UNION {{<<FirstNode>> \o [i \in 1..n |-> HashedNode(h[i])] :
              h \in {f \in [1..n -> ClusterHashes] :
                       \A i, j \in 1..n : i # j => f[i] # f[j]}} :
           n \in 0..MaxNodes}

InitCluster ==
    /\ clusterInput \in NodeLists
    /\ clusterThreshold \in 0..MaxThreshold
    /\ clusterOutput = <<>>
    /\ clusterCalls = 0
    /\ trajectory = <<>>
    /\ buildPhase = "idle"
    /\ cursor = <<>>
    /\ nodeMap = <<>>
    /\ sequenceNodeIds = <<>>
    /\ occurrenceCount = 0
    /\ graph = EMPTY_GRAPH
    /\ filterValue = NoFilter
    /\ view = Render(EMPTY_GRAPH)
    /\ NoHighlight
    /\ NoDistance
    /\ NoHashing
    /\ NoLayout
    /\ NoExtract
    /\ NoRebuild

\* buildClusters(nodes, {similarityThreshold}): annotates the nodes in place
\* and returns the cluster list
CallBuildClusters ==
    /\ clusterCalls < MaxCalls
    /\ LET r == buildClusters(clusterInput, clusterThreshold)
       IN  /\ clusterInput' = r.nodes
           /\ clusterOutput' = r.clusters
    /\ clusterCalls' = clusterCalls + 1
    /\ UNCHANGED nonClusterVars

NextCluster == CallBuildClusters

SpecCluster == InitCluster /\ [][NextCluster]_vars

----------------------------------------------------------------------------
(* Properties of clustering *)

NodeOfId(id) == clusterInput[IndexOfId(clusterInput, id)]

\* C8: no returned cluster holds a first-of-run node together with a node
\* that is not first-of-run.
C8_ClusterExclusivity ==
    \A c \in Range(clusterOutput) :
        \A a, b \in Range(c.nodeIds) :
            NodeOfId(a).isConditionFirst = NodeOfId(b).isConditionFirst

\* clustering ran on a list where a hashed node is within the threshold of
\* the first-of-run node's hash
C8_Witness ==
    /\ clusterCalls > 0
    /\ \E n \in Range(clusterInput) :
          /\ ~n.isConditionFirst
          /\ hashesAreSimilar(FIRST_CONDITION_HASH, n.hash, clusterThreshold)

\* node n is within the threshold of no other node of its kind
Isolated(n) ==
    \A m \in Range(clusterInput) :
        (m.id # n.id /\ m.isConditionFirst = n.isConditionFirst)
            => ~hashesAreSimilar(n.hash, m.hash, clusterThreshold)

\* C9: the returned cluster list holds no cluster of fewer than 2 members,
\* and a node similar to no other node keeps clusterId null.
C9_NoSingletonClusters ==
    clusterCalls > 0 =>
        /\ \A c \in Range(clusterOutput) : Len(c.nodeIds) >= 2
        /\ \A n \in Range(clusterInput) : Isolated(n) => n.clusterId = NULL

\* C10 as stated: any two members of a cluster are within the threshold.
C10_MutuallyClose ==
    \A c \in Range(clusterOutput) :
        \A a, b \in Range(c.nodeIds) :
            hammingDistance(NodeOfId(a).hash, NodeOfId(b).hash)
                <= clusterThreshold

\* C10, amended: every member of a cluster is within the threshold of the
\* cluster's seed, its representative node.
C10_CloseToSeed ==
    \A c \in Range(clusterOutput) :
        \A a \in Range(c.nodeIds) :
            hammingDistance(NodeOfId(c.representativeNodeId).hash,
                            NodeOfId(a).hash) <= clusterThreshold

\* a cluster with two members that are further apart than the threshold
C10_Witness ==
    \E c \in Range(clusterOutput) :
        \E a, b \in Range(c.nodeIds) :
            hammingDistance(NodeOfId(a).hash, NodeOfId(b).hash)
                > clusterThreshold

\* C20: with threshold 0 no cluster has two members, whatever the lengths
\* of the pairwise distinct fingerprints.
C20_ThresholdZero ==
    (clusterCalls > 0 /\ clusterThreshold = 0) =>
        \A c \in Range(clusterOutput) : Len(c.nodeIds) <= 1

Partition(clusters) == {Range(c.nodeIds) : c \in Range(clusters)}

\* C11: a second buildClusters call with the same threshold on the node list
\* the first call annotated returns the same partition of the node ids.
C11_IdempotentRecluster ==
    [][(clusterCalls >= 1 /\ clusterCalls' = clusterCalls + 1)
          => Partition(clusterOutput') = Partition(clusterOutput)]_vars

\* two calls were made on a list that has a cluster of several members
C11_Witness ==
    /\ clusterCalls = 2
    /\ \E c \in Range(clusterOutput) : Len(c.nodeIds) >= 2
    /\ \A n \in Range(clusterInput) : n.clusterId # NULL

----------------------------------------------------------------------------
(* hammingDistance on hex digests of up to MaxHashLen digits.  A missing
   digest (undefined, null) takes the same branches as the empty string, so
   both are the empty sequence here. *)

HexDigits == {0, 1, 3, 15}
Digests == UNION {[1..n -> HexDigits] : n \in 0..MaxHashLen}

InitDistance ==
    /\ leftHash \in Digests
    /\ rightHash \in Digests
    /\ distance = NULL
    /\ NoBuild
    /\ NoCluster
    /\ NoHighlight
    /\ NoHashing
    /\ NoLayout
    /\ NoExtract
    /\ NoRebuild

CallHammingDistance ==
    /\ distance = NULL
    /\ distance' = hammingDistance(leftHash, rightHash)
    /\ UNCHANGED <<leftHash, rightHash, nonDistanceVars>>

NextDistance == CallHammingDistance

SpecDistance == InitDistance /\ [][NextDistance]_vars

\* C12: hammingDistance(a, b) = hammingDistance(b, a) and
\* hammingDistance(a, a) = 0, for empty digests and digests of different
\* lengths too.
C12_DistanceSymmetry ==
    distance # NULL =>
        /\ distance = hammingDistance(rightHash, leftHash)
        /\ leftHash = rightHash => distance = 0

\* the distance of two non-empty digests of different lengths was computed
C12_Witness ==
    /\ distance # NULL
    /\ Len(leftHash) > Len(rightHash)
    /\ Len(rightHash) > 0
    /\ distance > 0

\* C13: when the two digests differ in length the distance is the maximal
\* one, 4 * max(len(hashA), len(hashB)).
C13_LengthMismatchMaximal ==
    (distance # NULL /\ Len(leftHash) # Len(rightHash)) =>
        distance = 4 * Max(Len(leftHash), Len(rightHash))

----------------------------------------------------------------------------
(* computeImageHash as a process: calls, their image loads, the 5 s timer
   of loadImage, the string-hash fallback and the shared hashCache
   (part_011:13-45, 94-139).  Every call uses the default hashSize, so the
   cache key is the source. *)

HashSrc == {"", "a", "b"}

\* sources whose pixels getImageData may read; "b" taints the canvas
ReadableSrc == {"a"}

CharCodes(value) == CASE value = "a" -> <<97>>
                      [] value = "b" -> <<98>>
                      [] OTHER -> <<>>

Abs(n) == IF n < 0 THEN -n ELSE n

RECURSIVE ToHex(_)
ToHex(n) == IF n < 16 THEN <<n>> ELSE Append(ToHex(n \div 16), n % 16)

\* hash = (hash << 5) - hash + charCode, hash |= 0; for the sources used
\* here the sum stays far below 2^31, where |= 0 changes nothing
RECURSIVE RollingHash(_, _, _)
RollingHash(codes, i, hash) ==
    IF i > Len(codes) THEN hash
    ELSE RollingHash(codes, i + 1, hash * 32 - hash + codes[i])

\* leading hex digits of the SHA-1 digests of "a" and "b"
Sha1 == [value \in {"a", "b"} |-> IF value = "a" THEN <<8, 6, 15>>
                                  ELSE <<14, 9, 13>>]

\* hashStringFallback; viaSubtle: crypto.subtle exists and digest succeeded
hashStringFallback(value, viaSubtle) ==
    IF value = "" THEN <<0>>
    ELSE IF viaSubtle THEN Sha1[value]
         ELSE ToHex(Abs(RollingHash(CharCodes(value), 1, 0)))

\* computeAverageHash of the decoded image
computeAverageHash(src) == ImageHash[src]

HashCall(src, phase, load, result) ==
    [src |-> src, phase |-> phase, load |-> load, result |-> result]

\* the error is thrown on to the caller
CatchLoadError_rethrow(call, why) ==
    [call EXCEPT !.phase = "rejected", !.load = why]

\* catch (error) of computeImageHash: the call goes on to await the fallback
CatchLoadError(call, why) ==
    [call EXCEPT !.phase = "fallback", !.load = why]

\* computeImageHash up to its first await
CallComputeImageHash(src) ==
    /\ Len(hashCalls) < MaxHashCalls
    /\ hashCalls' = Append(hashCalls,
          IF hashCache[src] # <<>>
          THEN HashCall(src, "done", "cached", hashCache[src])
          ELSE IF src = ""
               THEN CatchLoadError(HashCall(src, "loading", "pending", <<>>),
                                   "error")
               ELSE HashCall(src, "loading", "pending", <<>>))
    /\ UNCHANGED <<hashCache, subtle, nonHashVars>>

\* image.onload, then computeAverageHash
ImageLoads(i) ==
    /\ hashCalls[i].phase = "loading"
    /\ IF hashCalls[i].src \in ReadableSrc
       THEN LET hash == computeAverageHash(hashCalls[i].src)
            IN  /\ hashCache' = [hashCache EXCEPT ![hashCalls[i].src] = hash]
                /\ hashCalls' = [hashCalls EXCEPT ![i].phase = "done",
                                                  ![i].load = "hashed",
                                                  ![i].result = hash]
       ELSE /\ hashCalls' = [hashCalls EXCEPT
                                ![i] = CatchLoadError(@, "pixels")]
            /\ UNCHANGED hashCache
    /\ UNCHANGED <<subtle, nonHashVars>>

\* image.onerror
ImageErrors(i) ==
    /\ hashCalls[i].phase = "loading"
    /\ hashCalls' = [hashCalls EXCEPT ![i] = CatchLoadError(@, "error")]
    /\ UNCHANGED <<hashCache, subtle, nonHashVars>>

\* the 5 s timer of loadImage fires while the image is not complete
LoadTimeout(i) ==
    /\ hashCalls[i].phase = "loading"
    /\ hashCalls' = [hashCalls EXCEPT ![i] = CatchLoadError(@, "timeout")]
    /\ UNCHANGED <<hashCache, subtle, nonHashVars>>

\* hashStringFallback settles; the call stores and returns its digest
FallbackSettles(i, viaSubtle) ==
    /\ hashCalls[i].phase = "fallback"
    /\ viaSubtle => (subtle /\ hashCalls[i].src # "")
    /\ LET fallback == hashStringFallback(hashCalls[i].src, viaSubtle)
       IN  /\ hashCache' = [hashCache EXCEPT ![hashCalls[i].src] = fallback]
           /\ hashCalls' = [hashCalls EXCEPT ![i].phase = "done",
                                             ![i].result = fallback]
    /\ UNCHANGED <<subtle, nonHashVars>>

InitHash ==
    /\ hashCache = [src \in HashSrc |-> <<>>]
    /\ hashCalls = <<>>
    /\ subtle \in BOOLEAN
    /\ NoBuild
    /\ NoCluster
    /\ NoHighlight
    /\ NoDistance
    /\ NoLayout
    /\ NoExtract
    /\ NoRebuild

NextHash ==
    \/ \E src \in HashSrc : CallComputeImageHash(src)
    \/ \E i \in 1..Len(hashCalls) : ImageLoads(i)
    \/ \E i \in 1..Len(hashCalls) : ImageErrors(i)
    \/ \E i \in 1..Len(hashCalls) : LoadTimeout(i)
    \/ \E i \in 1..Len(hashCalls) : \E viaSubtle \in BOOLEAN :
          FallbackSettles(i, viaSubtle)

SpecHash == InitHash /\ [][NextHash]_vars

\* the timer of loadImage fires, and an awaited digest settles
SpecHashFair ==
    /\ SpecHash
    /\ WF_vars(\E i \in 1..Len(hashCalls) : LoadTimeout(i))
    /\ WF_vars(\E i \in 1..Len(hashCalls) : \E viaSubtle \in BOOLEAN :
                  FallbackSettles(i, viaSubtle))

FallbackDigests(src) == {hashStringFallback(src, v) : v \in BOOLEAN}

\* C14: a computeImageHash call never rejects and never stays pending; a
\* call whose image failed to load, timed out or could not be read resolves
\* to the string-hash fallback of its source.
C14_AlwaysSettles ==
    /\ [](\A i \in 1..Len(hashCalls) :
            /\ hashCalls[i].phase # "rejected"
            /\ (hashCalls[i].phase = "done"
                 /\ hashCalls[i].load \in {"error", "timeout", "pixels"})
                  => hashCalls[i].result \in FallbackDigests(hashCalls[i].src))
    /\ \A i \in 1..MaxHashCalls :
          [](Len(hashCalls) >= i =>
               <>(Len(hashCalls) >= i /\ hashCalls[i].phase = "done"))

\* one call resolved after a load timeout, another after a failed pixel read
C14_Witness ==
    \E i, j \in 1..Len(hashCalls) :
        /\ hashCalls[i].phase = "done" /\ hashCalls[i].load = "timeout"
        /\ hashCalls[j].phase = "done" /\ hashCalls[j].load = "pixels"

\* C15: all calls for the same source resolve to the same digest, also when
\* a call is made while an earlier one for that source is still pending and
\* the two image loads end differently.
C15_OneHashPerKey ==
    \A i, j \in 1..Len(hashCalls) :
        (/\ hashCalls[i].src = hashCalls[j].src
         /\ hashCalls[i].phase = "done"
         /\ hashCalls[j].phase = "done")
            => hashCalls[i].result = hashCalls[j].result

----------------------------------------------------------------------------
(* TrajectoryGraph: the data memo, the layout effect and the pin toggle
   (part_010:694-715, 745-824, 1364-1393, 1666-1691, 1795-1797).

   layout.version names the data object (a new one per graph), layout.nodes
   its node objects by id.  layout.sims lists the force simulations created
   so far, TRUE while one is running.  layout.cleanup is what the latest run
   of the layout effect returned: 0 for () => {}, i for the function that
   stops simulation i.  A node's position is wherever the simulation has put
   it (ensureLayoutDefaults seeds it with Math.random), so the position read
   by the pin toggle is a free choice from Coords. *)

LayoutNodeIds == {"n1", "n2"}
Coords == {1, 2}
Sizes == {0, 1, 2}     \* width (and height) of the container; 0: none yet

\* the memo without the lookup in persistentNodeStateRef
DataNodes_noRestore(ids, stateMap) ==
    [id \in ids |-> [fx |-> NULL, pinned |-> FALSE]]

\* data (useMemo): fresh copies of the graph's nodes; a node whose id is
\* stored as pinned gets fx and _pinned back
DataNodes(ids, stateMap) ==
    [id \in ids |-> IF stateMap[id] # NULL
                    THEN [fx |-> stateMap[id], pinned |-> TRUE]
                    ELSE [fx |-> NULL, pinned |-> FALSE]]

\* React runs the cleanup of the previous run, then the layout effect
LayoutEffect(l) ==
    LET cleaned == IF l.cleanup # 0
                   THEN [l EXCEPT !.sims[l.cleanup] = FALSE]
                   ELSE l
        dataChanged == l.version # l.previousDataRef
        seen == [cleaned EXCEPT !.previousDataRef = l.version]
    IN  IF l.size = 0
        THEN [cleaned EXCEPT !.cleanup = 0]
        ELSE IF ~dataChanged /\ l.simulationRef # 0
             THEN \* resize path: simulation.alpha(0.3).restart()
                  [seen EXCEPT !.sims[l.simulationRef] = TRUE, !.cleanup = 0]
             ELSE IF DOMAIN l.nodes = {}
                  THEN [seen EXCEPT !.simulationRef = 0, !.cleanup = 0]
                  ELSE \* forceSimulation(nodes) starts running
                       [seen EXCEPT !.sims = Append(@, TRUE),
                                    !.simulationRef = Len(l.sims) + 1,
                                    !.cleanup = Len(l.sims) + 1]

\* the graph prop changes: new data, then the layout effect
WithNewData(l, ids) ==
    LayoutEffect(
        [l EXCEPT !.version = @ + 1,
                  !.nodes = DataNodes(ids, l.stateMap),
                  !.restored = {id \in ids : l.stateMap[id] # NULL}])

GraphChange(ids) ==
    /\ layout.mounted
    /\ layout.version < MaxData
    /\ layout' = WithNewData(layout, ids)
    /\ UNCHANGED nonLayoutVars

\* the container is resized
Resize(size) ==
    /\ layout.mounted
    /\ size # layout.size
    /\ layout' = LayoutEffect([layout EXCEPT !.size = size])
    /\ UNCHANGED nonLayoutVars

\* the parent renders again with a new onNodeClick function; data and size
\* are unchanged
Rerender ==
    /\ layout.mounted
    /\ layout' = LayoutEffect(layout)
    /\ UNCHANGED nonLayoutVars

Unmount ==
    /\ layout.mounted
    /\ layout' = [layout EXCEPT
                     !.mounted = FALSE,
                     !.sims = IF layout.cleanup # 0
                              THEN [@ EXCEPT ![layout.cleanup] = FALSE]
                              ELSE @,
                     !.cleanup = 0]
    /\ UNCHANGED nonLayoutVars

\* the nodes layer shows the node objects of the current data
NodesDrawn ==
    /\ layout.mounted
    /\ layout.size # 0
    /\ layout.previousDataRef = layout.version
    /\ layout.simulationRef # 0

\* togglePin on the node id, which the simulation has put at x
TogglePin(id, x) ==
    /\ NodesDrawn
    /\ id \in DOMAIN layout.nodes
    /\ IF ~layout.nodes[id].pinned
       THEN layout' = [layout EXCEPT !.nodes[id] = [fx |-> x, pinned |-> TRUE],
                                     !.stateMap[id] = x]
       ELSE /\ x = layout.nodes[id].fx
            /\ layout' = [layout EXCEPT
                             !.nodes[id] = [fx |-> NULL, pinned |-> FALSE],
                             !.stateMap[id] = NULL,
                             !.sims[layout.simulationRef] = TRUE]
    /\ UNCHANGED nonLayoutVars

\* alpha falls below alphaMin: the simulation stops its timer
SimulationCools(i) ==
    /\ layout.sims[i]
    /\ layout' = [layout EXCEPT !.sims[i] = FALSE]
    /\ UNCHANGED nonLayoutVars

InitLayout ==
    /\ \E size \in Sizes : \E ids \in SUBSET LayoutNodeIds :
          layout = LayoutEffect(
             [mounted |-> TRUE, size |-> size, version |-> 1,
              nodes |-> DataNodes(ids, [id \in LayoutNodeIds |-> NULL]),
              restored |-> {},
              previousDataRef |-> 0, simulationRef |-> 0, sims |-> <<>>,
              cleanup |-> 0,
              stateMap |-> [id \in LayoutNodeIds |-> NULL]])
    /\ NoBuild
    /\ NoCluster
    /\ NoHighlight
    /\ NoDistance
    /\ NoHashing
    /\ NoExtract
    /\ NoRebuild

NextLayout ==
    \/ \E ids \in SUBSET LayoutNodeIds : GraphChange(ids)
    \/ \E size \in Sizes : Resize(size)
    \/ Rerender
    \/ Unmount
    \/ \E id \in LayoutNodeIds : \E x \in Coords : TogglePin(id, x)
    \/ \E i \in 1..Len(layout.sims) : SimulationCools(i)

SpecLayout == InitLayout /\ [][NextLayout]_vars

Running == {i \in 1..Len(layout.sims) : layout.sims[i]}

\* C17: at most one force simulation is running at any time, and none
\* after unmount.
C17_OneSimulation ==
    /\ Cardinality(Running) <= 1
    /\ ~layout.mounted => Running = {}

\* C18: a rebuild gives every node whose id is stored as pinned the pinned
\* flag and fx at the stored coordinate, and leaves every other node
\* unpinned and free; a re-layout without a pin toggle changes no node.
C18_PinPersists ==
    [][/\ layout'.version # layout.version =>
            \A id \in DOMAIN layout'.nodes :
                IF layout'.stateMap[id] # NULL
                THEN /\ layout'.nodes[id].pinned
                     /\ layout'.nodes[id].fx = layout'.stateMap[id]
                ELSE /\ ~layout'.nodes[id].pinned
                     /\ layout'.nodes[id].fx = NULL
       /\ (layout'.version = layout.version
           /\ layout'.stateMap = layout.stateMap) =>
               layout'.nodes = layout.nodes]_vars

\* a rebuild has restored a pin made on an earlier graph
C18_Witness ==
    /\ layout.version >= 2
    /\ layout.restored # {}
    /\ \A id \in layout.restored : layout.nodes[id].pinned

----------------------------------------------------------------------------
(* TrajectoryGraph: dragging (part_010:1727-1790), next to the pin toggle,
   the tick constraints (1395-1513) and the layout effect.

   Four fields join the layout record.  layout.pos is the position (x) of
   each node object of the current data.  layout.drag is the gesture in
   progress: the node grabbed, the data whose node objects the handlers of
   the gesture hold (d3-drag keeps the datum and the listeners of the
   gesture's start), the members fixed at its start and those of them that
   were pinned.  One pointer is modelled, so event.active is 0 at the start
   and at the end of a gesture and no other pointer event comes in between.
   layout.released holds the nodes the end of the latest gesture set free.
   layout.similar tells whether n1 and n2 form one cluster when both are in
   the graph. *)

NoDrag == [id |-> "", version |-> 0, members |-> {}, pinned |-> {}]

Dragging == layout.drag # NoDrag

\* nodeClusterMap.get(node.id).members when it has more than one member,
\* else the node alone
DragMembers(id) ==
    IF layout.similar /\ Cardinality(DOMAIN layout.nodes) > 1
    THEN DOMAIN layout.nodes
    ELSE {id}

\* on('start')
DragStart(id) ==
    /\ NodesDrawn
    /\ ~Dragging
    /\ id \in DOMAIN layout.nodes
    /\ LET members == DragMembers(id)
       IN  layout' = [layout EXCEPT
              !.sims[layout.simulationRef] = TRUE,
              !.nodes = [m \in DOMAIN @ |->
                           IF m \in members
                           THEN [@[m] EXCEPT !.fx = layout.pos[m]]
                           ELSE @[m]],
              !.drag = [id |-> id, version |-> layout.version,
                        members |-> members,
                        pinned |-> {m \in members : layout.nodes[m].pinned}],
              !.released = {}]
    /\ UNCHANGED nonLayoutVars

\* on('drag'): the pointer moves by dx; a lone node goes to event.x
DragMove(dx) ==
    /\ Dragging
    /\ layout.drag.version = layout.version
    /\ \A m \in layout.drag.members : layout.nodes[m].fx + dx \in Coords
    /\ layout' = [layout EXCEPT
          !.nodes = [m \in DOMAIN @ |->
                       IF m \in layout.drag.members
                       THEN [@[m] EXCEPT !.fx = @ + dx]
                       ELSE @[m]]]
    /\ UNCHANGED nonLayoutVars

\* the members on('end') sets free; without the release every member
\* stays fixed
ReleasedAtEnd_none(members, pinned) == {}

ReleasedAtEnd(members, pinned) == members \ pinned

\* on('end').  After a graph change the handlers still hold the node
\* objects of the data the gesture began on, at the positions oldPos: only
\* the stored pins are written.
DragEnd(oldPos) ==
    /\ Dragging
    /\ LET g == layout.drag
           current == g.version = layout.version
           at(m) == IF current THEN layout.pos[m] ELSE oldPos
           pinned == IF current
                     THEN {m \in g.members : layout.nodes[m].pinned}
                     ELSE g.pinned
       IN  /\ current => oldPos = layout.pos[g.id]
           /\ layout' = [layout EXCEPT
                 !.nodes = [m \in DOMAIN @ |->
                              IF current /\ m \in ReleasedAtEnd(g.members, pinned)
                              THEN [@[m] EXCEPT !.fx = NULL]
                              ELSE @[m]],
                 !.stateMap = [m \in DOMAIN @ |->
                                 IF m \in pinned THEN at(m) ELSE @[m]],
                 !.drag = NoDrag,
                 !.released = IF current THEN ReleasedAtEnd(g.members, pinned)
                              ELSE {}]
    /\ UNCHANGED nonLayoutVars

\* one tick of the running simulation: a free node moves; a fixed node is
\* put at fx, and a cluster or viewport constraint may move it and fx with
\* it (lines 1416-1421, 1456-1471, 1508-1513)
Tick(id, x) ==
    /\ NodesDrawn
    /\ layout.sims[layout.simulationRef]
    /\ id \in DOMAIN layout.nodes
    /\ layout.pos[id] # x \/ layout.nodes[id].fx \notin {NULL, x}
    /\ layout' = [layout EXCEPT
          !.pos[id] = x,
          !.nodes[id].fx = IF @ = NULL THEN NULL ELSE x]
    /\ UNCHANGED nonLayoutVars

\* the pin toggle of a node where it is: a pinned node rests at fx
PinAt(id) ==
    /\ ~Dragging
    /\ id \in DOMAIN layout.nodes
    /\ TogglePin(id, IF layout.nodes[id].pinned THEN layout.nodes[id].fx
                     ELSE layout.pos[id])

\* alpha decays below alphaMin; during a gesture alphaTarget is 0.2, which
\* keeps the drawn simulation above it
Cools(i) ==
    /\ ~(Dragging /\ i = layout.simulationRef)
    /\ SimulationCools(i)

\* a new graph: a restored node stands at its stored position, every other
\* node where the layout puts it
NewGraph(ids) ==
    /\ layout.version < MaxData
    /\ layout' = [WithNewData(layout, ids) EXCEPT
                     !.pos = [id \in DOMAIN @ |->
                                IF id \in ids /\ layout.stateMap[id] # NULL
                                THEN layout.stateMap[id]
                                ELSE @[id]]]
    /\ UNCHANGED nonLayoutVars

InitDrag ==
    /\ \E ids \in SUBSET LayoutNodeIds : \E similar \in BOOLEAN :
       \E pos \in [LayoutNodeIds -> Coords] :
          layout = LayoutEffect(
             [mounted |-> TRUE, size |-> 1, version |-> 1,
              nodes |-> DataNodes(ids, [id \in LayoutNodeIds |-> NULL]),
              restored |-> {},
              previousDataRef |-> 0, simulationRef |-> 0, sims |-> <<>>,
              cleanup |-> 0,
              stateMap |-> [id \in LayoutNodeIds |-> NULL],
              pos |-> pos, drag |-> NoDrag, released |-> {},
              similar |-> similar])
    /\ NoBuild
    /\ NoCluster
    /\ NoHighlight
    /\ NoDistance
    /\ NoHashing
    /\ NoExtract
    /\ NoRebuild

NextDrag ==
    \/ \E ids \in SUBSET LayoutNodeIds : NewGraph(ids)
    \/ \E size \in Sizes : Resize(size)
    \/ \E id \in LayoutNodeIds : PinAt(id)
    \/ \E i \in 1..Len(layout.sims) : Cools(i)
    \/ \E id \in LayoutNodeIds : DragStart(id)
    \/ \E dx \in {-1, 1} : DragMove(dx)
    \/ \E oldPos \in Coords : DragEnd(oldPos)
    \/ \E id \in LayoutNodeIds : \E x \in Coords : Tick(id, x)

SpecDrag == InitDrag /\ [][NextDrag]_vars

----------------------------------------------------------------------------
(* graphBuilder.js: resolveImageSource and the screenshot map/filter of
   extractScreenshotSequences (lines 38-146, 199-226).  A string is the
   sequence of its characters; null is the empty sequence, which no branch
   of resolveImageSource returns. *)

RefChars == {"a", "d", "t", "9", "+", "/", "=", ":", ",", " ", "!"}
Letters == {"a", "d", "t"}                    \* [a-z]
SchemeChars == Letters \cup {"9", "+"}        \* [a-z0-9+.-]
Base64Chars == Letters \cup {"9", "+", "/", "="}
MinBase64Length == 16

Repeat(c, n) == [i \in 1..n |-> c]

StartsWith(str, prefix) ==
    Len(str) >= Len(prefix) /\ SubSeq(str, 1, Len(prefix)) = prefix

\* String.prototype.trim
Trim(str) ==
    LET inked == {i \in 1..Len(str) : str[i] # " "}
    IN  IF inked = {} THEN <<>>
        ELSE SubSeq(str, CHOOSE i \in inked : \A j \in inked : i <= j,
                         CHOOSE i \in inked : \A j \in inked : i >= j)

\* SCHEME_PATTERN.test: /^[a-z][a-z0-9+.-]*:/i
SCHEME_PATTERN(str) ==
    \E k \in 2..Len(str) :
        /\ str[k] = ":"
        /\ str[1] \in Letters
        /\ \A j \in 2..(k - 1) : str[j] \in SchemeChars

DataPrefix == <<"d", "a", "t", "a", ":">>

\* value.replace(/\s+/g, '').replace(/^data:[^,]+,/, '')
sanitizeBase64(value) ==
    LET packed == SelectSeq(value, LAMBDA c : c # " ")
        commas == {k \in 6..Len(packed) : packed[k] = ","}
        first == CHOOSE k \in commas : \A j \in commas : k <= j
    IN  IF StartsWith(packed, DataPrefix) /\ commas # {} /\ first >= 7
        THEN SubSeq(packed, first + 1, Len(packed))
        ELSE packed

isLikelyBase64Image(value) ==
    LET trimmed == Trim(value)
        normalized == sanitizeBase64(trimmed)
    IN  /\ trimmed # <<>>
        /\ ~(SCHEME_PATTERN(trimmed) \/ StartsWith(trimmed, <<"/", "/">>))
        /\ Len(trimmed) >= MinBase64Length
        /\ Len(normalized) % 4 = 0
        /\ normalized # <<>>
        /\ \A i \in 1..Len(normalized) : normalized[i] \in Base64Chars

resolveImageSource(value) ==
    LET trimmed == Trim(value)
    IN  IF trimmed = <<>> THEN <<>>
        ELSE IF StartsWith(trimmed, <<"/", "/">>)
             THEN <<"https:">> \o trimmed
        ELSE IF StartsWith(trimmed, DataPrefix) THEN trimmed
        ELSE IF SCHEME_PATTERN(trimmed) THEN trimmed
        ELSE IF isLikelyBase64Image(trimmed)
             THEN <<"data:image/png;base64,">> \o sanitizeBase64(trimmed)
        ELSE trimmed

\* entry.screenshots.map(normalizeScreenshot).filter(Boolean)
screenshotsRaw(shots) ==
    SelectSeq([i \in 1..Len(shots) |->
                 [screenshotIndex |-> i - 1,
                  raw |-> shots[i],
                  src |-> resolveImageSource(shots[i])]],
              LAMBDA shot : shot.src # <<>>)

\* references of up to MaxRefLen characters, and longer ones around the
\* minimum length of a base64 payload
ImageRefs ==
    UNION {[1..n -> RefChars] : n \in 0..MaxRefLen}
    \cup {Repeat("a", n) : n \in 15..18}
    \cup {Repeat("a", 15) \o <<"!">>,
          <<" ">> \o Repeat("9", 16) \o <<" ">>,
          <<"d", " ">> \o <<"a", "t", "a", ":", "t", ",">> \o Repeat("a", 16),
          <<"a", "+", ":">> \o Repeat("/", 2)}

\* a scheme-relative reference, which resolves to an https URL
GoodRef == <<"/", "/", "a">>

InitExtract ==
    /\ \E ref \in ImageRefs :
          rawShots \in {<<ref>>, <<ref, GoodRef>>, <<GoodRef, ref>>}
    /\ keptShots = NotExtracted
    /\ NoBuild
    /\ NoCluster
    /\ NoHighlight
    /\ NoDistance
    /\ NoHashing
    /\ NoLayout
    /\ NoRebuild

ExtractScreenshots ==
    /\ ~keptShots.done
    /\ keptShots' = [done |-> TRUE, shots |-> screenshotsRaw(rawShots)]
    /\ UNCHANGED <<rawShots, nonExtractVars>>

NextExtract == ExtractScreenshots

SpecExtract == InitExtract /\ [][NextExtract]_vars

\* a non-empty reference that is no data URI, no URL with a scheme, no
\* scheme-relative URL and no well-formed base64 payload
Unusable(ref) ==
    LET trimmed == Trim(ref)
    IN  /\ trimmed # <<>>
        /\ ~StartsWith(trimmed, DataPrefix)
        /\ ~SCHEME_PATTERN(trimmed)
        /\ ~StartsWith(trimmed, <<"/", "/">>)
        /\ ~isLikelyBase64Image(trimmed)

Kept(i) ==
    \E k \in 1..Len(keptShots.shots) :
        keptShots.shots[k].screenshotIndex = i - 1

\* C19: the extractor drops every screenshot whose reference is unusable
\* and keeps the other screenshots of the sequence.
C19_UnusableDropped ==
    keptShots.done =>
        \A i \in 1..Len(rawShots) : Kept(i) <=> ~Unusable(rawShots[i])

----------------------------------------------------------------------------
(* TrajectoryGraph: highlight playback (lines 656-664, 1800-1984).

   hl.timers is highlightStateRef.current.timers, hl.pending the callbacks
   the browser still holds (window.setTimeout timers and the 'end' listener
   of a running d3 transition).  A timer is named by the playback that owns
   it, its kind and its step; a timer created inside a callback is owned by
   the playback of that callback.  Time is counted from the latest run of
   the effect. *)

HlDrawn == {"n1", "n2"}          \* nodes in the nodes layer
HlPathIds == HlDrawn \cup {"nx"} \* ids a nodePath may name; "nx" is not drawn

NodeEl(n) == <<"node", n, n>>
LinkEl(a, b) == <<"link", a, b>>

\* links in the links layer: the graph has no link from a node to itself
HlLinksDrawn == {LinkEl(e[1], e[2]) :
                    e \in {p \in HlDrawn \X HlDrawn : p[1] # p[2]}}
HlElements == {NodeEl(n) : n \in HlDrawn} \cup HlLinksDrawn

\* highlightRequest: null, or the nodePath of a legend entry; linkPath has
\* an entry at step i when the graph links step i to step i+1
HighlightRequests ==
    {[isNull |-> TRUE, nodePath |-> <<>>]} \cup
    {[isNull |-> FALSE, nodePath |-> p] :
        p \in UNION {[1..n -> HlPathIds] : n \in 0..MaxPath}}

stepDuration(nodeCount) ==
    IF nodeCount > 18 THEN 350
    ELSE IF nodeCount > 12 THEN 420
    ELSE IF nodeCount > 7 THEN 500 ELSE 600

\* Math.round(stepDuration * 0.35); 350 * 0.35 is 122.49999999999999 in
\* double precision, the other three products are exact
linkDelay(nodeCount) ==
    LET d == stepDuration(nodeCount)
    IN  IF d = 350 THEN 122 ELSE (d * 35 + 50) \div 100

\* Math.max(350, Math.round(stepDuration * 0.6))
linkDuration(nodeCount) ==
    Max(350, (stepDuration(nodeCount) * 60 + 50) \div 100)

\* the de-activation delay of the longest step duration used for all
activeReleaseDelay_fixed(nodeCount) == 450

\* Math.max(250, Math.round(stepDuration * 0.75))
activeReleaseDelay(nodeCount) ==
    Max(250, (stepDuration(nodeCount) * 75 + 50) \div 100)

TimerId(t) == <<t.run, t.kind, t.step>>

Timer(run, kind, step, el, due, nodeCount) ==
    [run |-> run, kind |-> kind, step |-> step, el |-> el, due |-> due,
     nodeCount |-> nodeCount]

\* the clearTimeout loop forgotten: the list is only reset
cancelHighlightTimers_resetOnly(h) == [h EXCEPT !.timers = <<>>]

cancelHighlightTimers(h) ==
    [h EXCEPT !.pending = {t \in @ : TimerId(t) \notin Range(h.timers)},
              !.timers = <<>>]

registerTimer(h, t) ==
    [h EXCEPT !.timers = Append(@, TimerId(t)), !.pending = @ \cup {t}]

\* selection.interrupt() on the node and link selections
interrupt(h) == [h EXCEPT !.pending = {t \in @ : t.kind # "transitionEnd"}]

\* the timers orderedNodes.forEach creates for step index i (0-based), in
\* creation order (lines 1915-1973)
StepTimers(run, path, i) ==
    LET n == Len(path)
        d == stepDuration(n)
        baseDelay == i * d
        nodeT == IF path[i + 1] \in HlDrawn
                 THEN <<Timer(run, "node", i, NodeEl(path[i + 1]), baseDelay, n)>>
                 ELSE <<>>
        linkT == IF /\ i < n - 1
                    /\ LinkEl(path[i + 1], path[i + 2]) \in HlLinksDrawn
                 THEN <<Timer(run, "link", i, LinkEl(path[i + 1], path[i + 2]),
                              baseDelay + linkDelay(n), n)>>
                 ELSE <<>>
    IN  nodeT \o linkT

RECURSIVE PathTimers(_, _, _)
PathTimers(run, path, i) ==
    IF i >= Len(path) THEN <<>>
    ELSE StepTimers(run, path, i) \o PathTimers(run, path, i + 1)

\* the restore timer set to the delay of the last step
RestoreTimer_atLastStep(run, path) ==
    LET n == Len(path)
    IN  Timer(run, "restore", n, <<"root", "", "">>,
              (n - 1) * stepDuration(n), n)

RestoreTimer(run, path) ==
    LET n == Len(path)
    IN  Timer(run, "restore", n, <<"root", "", "">>,
              n * stepDuration(n) + linkDelay(n) + 500, n)

RECURSIVE RegisterAll(_, _)
RegisterAll(h, ts) ==
    IF ts = <<>> THEN h ELSE RegisterAll(registerTimer(h, Head(ts)), Tail(ts))

\* the effect, run for a new highlightRequest (or new data): cancel, reset
\* the classes, then schedule the playback
Play(req) ==
    /\ hl.run < MaxPlays
    /\ LET run == hl.run + 1
           rebased == [hl EXCEPT !.pending =
                          {[t EXCEPT !.due = Max(0, @ - hl.now)] : t \in @},
                                 !.now = 0]
           h1 == interrupt(cancelHighlightTimers(rebased))
           h2 == [h1 EXCEPT !.run = run,
                            !.request = req,
                            !.active = {}, !.traced = {}, !.dimmed = {},
                            !.cancelled = {t.kind : t \in hl.pending \ h1.pending},
                            !.replay = (hl.run > 0 /\ req = hl.request)]
       IN  IF req.isNull \/ Len(req.nodePath) = 0
           THEN hl' = h2
           ELSE hl' = RegisterAll([h2 EXCEPT !.dimmed = HlElements],
                                  Append(PathTimers(run, req.nodePath, 0),
                                         RestoreTimer(run, req.nodePath)))
    /\ UNCHANGED nonHighlightVars

\* the callback of the restore timer (lines 1975-1978)
restoreCallback_nodesOnly(h) ==
    [h EXCEPT !.dimmed = {e \in @ : e[1] # "node"}]

restoreCallback(h) == [h EXCEPT !.dimmed = {}]

\* the browser runs the callback that is due first
Fire(t) ==
    /\ t \in hl.pending
    /\ \A u \in hl.pending : t.due <= u.due
    /\ LET h == [hl EXCEPT !.pending = @ \ {t}, !.now = t.due]
           lit == [h EXCEPT !.dimmed = @ \ {t.el},
                            !.traced = @ \cup {t.el},
                            !.active = @ \cup {t.el}]
           release(kind) == Timer(t.run, kind, t.step, t.el,
                                  t.due + activeReleaseDelay(t.nodeCount),
                                  t.nodeCount)
       IN  hl' = CASE t.kind = "node" -> registerTimer(lit, release("release"))
                   [] t.kind = "link" ->
                        IF ~hl.svgGeometry
                        THEN registerTimer(lit, release("linkReset"))
                        ELSE [lit EXCEPT !.pending = @ \cup
                                 {Timer(t.run, "transitionEnd", t.step, t.el,
                                        t.due + linkDuration(t.nodeCount),
                                        t.nodeCount)}]
                   [] t.kind \in {"release", "linkReset", "transitionEnd"} ->
                        [h EXCEPT !.active = @ \ {t.el}]
                   [] t.kind = "restore" -> restoreCallback(h)
    /\ UNCHANGED nonHighlightVars

InitHighlight ==
    /\ \E g \in BOOLEAN :
          hl = [request |-> [isNull |-> TRUE, nodePath |-> <<>>],
                run |-> 0, timers |-> <<>>, pending |-> {}, now |-> 0,
                dimmed |-> {}, active |-> {}, traced |-> {},
                cancelled |-> {}, replay |-> FALSE, svgGeometry |-> g]
    /\ NoBuild
    /\ NoCluster
    /\ NoDistance
    /\ NoHashing
    /\ NoLayout
    /\ NoExtract
    /\ NoRebuild

NextHighlight ==
    \/ \E req \in HighlightRequests : Play(req)
    \/ \E t \in hl.pending : Fire(t)

SpecHighlight == InitHighlight /\ [][NextHighlight]_vars

\* the browser's timer queue runs every callback that is due
SpecHighlightFair ==
    SpecHighlight /\ WF_vars(\E t \in hl.pending : Fire(t))

\* One playback that nothing supersedes, of a path of up to MaxLongPath
\* steps over the two drawn nodes: the lengths reach each of the four step
\* durations.
LongPath(n) == [i \in 1..n |-> IF i % 2 = 1 THEN "n1" ELSE "n2"]

PlayOnce(n) ==
    /\ hl.run = 0
    /\ Play([isNull |-> FALSE, nodePath |-> LongPath(n)])

NextPlayback ==
    \/ \E n \in 1..MaxLongPath : PlayOnce(n)
    \/ \E t \in hl.pending : Fire(t)

SpecPlayback == InitHighlight /\ [][NextPlayback]_vars

----------------------------------------------------------------------------
(* Properties of highlight playback *)

\* C3: once a playback has been superseded by a new run of the effect, no
\* callback of the superseded playback is left to fire: every pending timer,
\* nested ones included, belongs to the latest playback.
C3_NoResidualTimers ==
    \A t \in hl.pending : t.run = hl.run

\* the same path was played again while the first playback still had its
\* restore timer and a nested de-activation timer pending, and the timers of
\* the second playback are now pending
C3_Witness ==
    /\ hl.run >= 2
    /\ hl.replay
    /\ {"release", "restore"} \subseteq hl.cancelled
    /\ hl.pending # {}

\* the current playback scheduled timers and its restore timer has fired
RestoreFired ==
    /\ hl.run >= 1
    /\ ~hl.request.isNull
    /\ Len(hl.request.nodePath) > 0
    /\ \A t \in hl.pending : t.kind # "restore"

\* C21: once the restore timer of a playback has fired, no callback of that
\* playback is left to fire (node activations, de-activations, edge reveals
\* and their ends all came earlier), and no node and no link is dimmed.
C21_RestoreFiresLast ==
    RestoreFired => (hl.pending = {} /\ hl.dimmed = {})

\* a path of 19 steps (step duration 350) was played to its end
C21_Witness ==
    /\ RestoreFired
    /\ Len(hl.request.nodePath) = 19
    /\ hl.traced = HlElements
    /\ hl.now = 19 * 350 + 122 + 500

\* Idle: no callback pending, nothing active, nothing dimmed
HlIdle == hl.pending = {} /\ hl.active = {} /\ hl.dimmed = {}

\* C22: the player goes Idle -> Playing -> Idle.  With the timer queue
\* running every due callback, a playback that no later run of the effect
\* supersedes ends in Idle; a run of the effect for a null request or an
\* empty nodePath is Idle at once and registers no timer.
C22_IdlePlayingIdle ==
    /\ \A r \in 1..MaxPlays : (hl.run = r) ~> (hl.run # r \/ HlIdle)
    /\ [][(/\ hl'.run # hl.run
           /\ (hl'.request.isNull \/ Len(hl'.request.nodePath) = 0))
          => (HlIdle' /\ hl'.timers = <<>>)]_vars

\* a playback that superseded an earlier one has run to its end
C22_Witness ==
    /\ hl.run = 2
    /\ hl.cancelled # {}
    /\ Len(hl.request.nodePath) = 2
    /\ hl.traced # {}
    /\ HlIdle

\* the delays orderedNodes.forEach gives to the timers of step i
Scheduled(t) ==
    LET d == stepDuration(t.nodeCount)
        ld == linkDelay(t.nodeCount)
    IN  /\ t.kind = "node" => t.due = t.step * d
        /\ t.kind = "link" => (t.due = t.step * d + ld /\ 0 < ld /\ ld < d)

\* C26: the activation of the node of step i is due at i * d and the reveal
\* of the edge from step i to step i + 1 at i * d + linkDelay, with
\* 0 < linkDelay < d; when the node of a step activates, the activations,
\* the edge reveals and the node de-activations of all earlier steps have
\* fired.
C26_StepOrder ==
    /\ [](\A t \in hl.pending : Scheduled(t))
    /\ [][\A t \in hl.pending \ hl'.pending :
            (hl'.run = hl.run /\ t.kind = "node") =>
                \A u \in hl.pending :
                    u.step < t.step =>
                        u.kind \notin {"node", "link", "release"}]_vars

\* in a playback of 13 steps (step duration 420) the node of step 1 has
\* just activated: the node of step 0 is traced and no longer active, the
\* edge between them is traced
C26_Witness ==
    /\ hl.run = 1
    /\ Len(hl.request.nodePath) = 13
    /\ hl.now = 420
    /\ NodeEl("n2") \in hl.active
    /\ NodeEl("n1") \in hl.traced \ hl.active
    /\ LinkEl("n1", "n2") \in hl.traced

\* the simulation the layout draws from is running
Simulating ==
    /\ layout.simulationRef # 0
    /\ layout.sims[layout.simulationRef]

\* C27: with nodes to lay out in a viewport of positive size, the
\* simulation is running after a graph change, after a resize, after the
\* start of a drag, after a node is pinned and after a node is unpinned.
C27_ReentersSimulating ==
    [][(/\ layout'.size # 0
        /\ DOMAIN layout'.nodes # {}
        /\ \/ layout'.version # layout.version
           \/ layout'.size # layout.size
           \/ layout.drag = NoDrag /\ layout'.drag # NoDrag
           \/ \E id \in LayoutNodeIds :
                 (layout.stateMap[id] = NULL) # (layout'.stateMap[id] = NULL))
       => Simulating']_vars

\* C30: while no drag is in progress a node is fixed exactly when its id is
\* stored as pinned, and it then carries the pinned flag; the end of a drag
\* releases the members that are not pinned, leaves the pinned ones fixed
\* where they are and stores their current position.
C30_FixedOnlyWhileDragged ==
    /\ [](~Dragging =>
            \A id \in DOMAIN layout.nodes :
               /\ (layout.nodes[id].fx # NULL) <=> (layout.stateMap[id] # NULL)
               /\ layout.nodes[id].pinned <=> (layout.stateMap[id] # NULL))
    /\ [][(/\ layout.drag # NoDrag
           /\ layout'.drag = NoDrag
           /\ layout.drag.version = layout.version)
          => \A m \in layout.drag.members :
                IF layout.nodes[m].pinned
                THEN /\ layout'.nodes[m].fx = layout.nodes[m].fx
                     /\ layout'.stateMap[m] = layout.pos[m]
                ELSE /\ layout'.nodes[m].fx = NULL
                     /\ layout'.stateMap[m] = NULL]_vars

\* a drag of a cluster of a free node and a node pinned on an earlier graph
\* has ended: the free one is released, the pinned one is fixed and stored
\* at the same place
C30_Witness ==
    /\ ~Dragging
    /\ layout.similar
    /\ DOMAIN layout.nodes = {"n1", "n2"}
    /\ layout.released = {"n2"}
    /\ layout.nodes["n2"].fx = NULL
    /\ layout.nodes["n1"].pinned
    /\ layout.nodes["n1"].fx = 2
    /\ layout.stateMap["n1"] = 2
    /\ layout.restored = {"n1"}

====
